---- MODULE Spec2Model ----
(***************************************************************************)
(* A model of the spintax editor's tree engine: the grammar parser         *)
(* (parseSpintax / parseChoice / parseOptionContent), the serializer       *)
(* (generateSpintax), the variation counter (calculateVariations), the     *)
(* random renderer (generateRandomVariant), path addressing                *)
(* (getNodeByPathInDraft), and the editing hook useSpintaxTree: its edit   *)
(* handlers (updateNode, deleteNode, addNode and the reorder callbacks of  *)
(* the node editor) and its undo and redo stacks, and the other            *)
(* useSpintaxTree, which has no history.                                   *)
(*                                                                         *)
(* Strings are sequences of one-character strings; string indices are the  *)
(* 0-based indices of the TypeScript source.  Nodes are records carrying   *)
(* exactly the fields of the TypeScript interfaces, so a Text node has no  *)
(* children field.                                                         *)
(***************************************************************************)
EXTENDS Integers, Sequences, FiniteSets, TLC

VARIABLES text, tree, spintaxString, reparsed, variationCount,
          randomVariant, path, found, pc,
          history, redoStack, error, call, calls, trip

vars == <<text, tree, spintaxString, reparsed, variationCount,
          randomVariant, path, found, pc,
          history, redoStack, error, call, calls, trip>>

\* The state of the history hook, which the library calls leave alone.
hookVars == <<history, redoStack, error, call, calls, trip>>

(***************************************************************************)
(* Bounds of the model.                                                    *)
(***************************************************************************)
MaxLen == 5

MaxSiblings == 20

MaxOptions == 10

MaxDepth == 3

MaxDraws == 3

MaxPathLen == 4

MaxIndex == 2

MaxEnumerated == 16
\* The largest index of the paths the edits are called with.
MaxEditIndex == 2
\* The calls that push history in a sequence of calls of the hook.
MaxCalls == 2
\* The children of the root in the long run of edits.
MaxTexts == 52

(***************************************************************************)
(* Node kinds (src/types/spintax.ts).                                      *)
(***************************************************************************)
Null == [type |-> "null"]

TextNode(content) == [type |-> "text", content |-> content]

OptionNode(content, children) ==
  [type |-> "option", content |-> content, children |-> children]

ChoiceNode(children) == [type |-> "choice", children |-> children]

RootNode(children) == [type |-> "root", children |-> children]

(***************************************************************************)
(* JavaScript string primitives used by the parser.                        *)
(***************************************************************************)
Min(a, b) == IF a < b THEN a ELSE b

Max(a, b) == IF a > b THEN a ELSE b

CharAt(str, i) == str[i + 1]

\* String.prototype.substring(a, b): both ends clamped to [0, length],
\* swapped when a > b.
Substring(str, a, b) ==
  LET ca == Max(0, Min(a, Len(str)))
      cb == Max(0, Min(b, Len(str)))
  IN SubSeq(str, Min(ca, cb) + 1, Max(ca, cb))

\* String.prototype.indexOf(ch, from) for a one-character needle.
RECURSIVE IndexOf(_, _, _)
IndexOf(str, ch, from) ==
  IF from >= Len(str) THEN -1
  ELSE IF CharAt(str, from) = ch THEN from
  ELSE IndexOf(str, ch, from + 1)

\* The characters String.prototype.trim() removes, as far as the model's
\* alphabet has them.
IsSpace(c) == c \in {" ", "\n", "\r", "\t"}

RECURSIVE TrimStart(_)
TrimStart(s) ==
  IF s # <<>> /\ IsSpace(Head(s)) THEN TrimStart(Tail(s)) ELSE s

RECURSIVE TrimEnd(_)
TrimEnd(s) ==
  IF s # <<>> /\ IsSpace(s[Len(s)]) THEN TrimEnd(SubSeq(s, 1, Len(s) - 1))
  ELSE s

Trim(s) == TrimEnd(TrimStart(s))

\* s.replace(/\r\n|\r|\n/g, " ")
RECURSIVE ReplaceNewlines(_)
ReplaceNewlines(s) ==
  IF s = <<>> THEN <<>>
  ELSE IF Len(s) >= 2 /\ s[1] = "\r" /\ s[2] = "\n"
       THEN <<" ">> \o ReplaceNewlines(SubSeq(s, 3, Len(s)))
  ELSE IF s[1] \in {"\r", "\n"}
       THEN <<" ">> \o ReplaceNewlines(Tail(s))
  ELSE <<s[1]>> \o ReplaceNewlines(Tail(s))

(***************************************************************************)
(* The grammar parser (src/lib/yaml/index.ts).                             *)
(*                                                                         *)
(* Every while loop is a recursive operator over the loop's variables.     *)
(* A loop result carries the flag ok: it is FALSE when some iteration      *)
(* would be entered again without its scan index having advanced, which    *)
(* is the case in which the TypeScript loop never ends.                    *)
(***************************************************************************)

\* Lines 52-58 and 65-71: a non-empty text run becomes the option's own
\* content when it is the first thing seen, a Text child otherwise.
AddOptionText(option, textContent) ==
  IF textContent = <<>> THEN option
  ELSE IF Len(option.children) = 0 /\ option.content = <<>>
       THEN [option EXCEPT !.content = textContent]
  ELSE [option EXCEPT !.children = Append(@, TextNode(textContent))]

\* Lines 92-97: the map callback, which trims a non-empty Text child.
TrimChild(child) ==
  IF child.type = "text" /\ child.content # <<>>
  THEN [child EXCEPT !.content = Trim(@)]
  ELSE child

\* Lines 98-101: the filter callback, which keeps all but empty Text nodes.
KeepChild(child) == ~(child.type = "text" /\ child.content = <<>>)

RECURSIVE FilterChildren(_)
FilterChildren(children) ==
  IF children = <<>> THEN <<>>
  ELSE IF KeepChild(Head(children))
       THEN <<Head(children)>> \o FilterChildren(Tail(children))
  ELSE FilterChildren(Tail(children))

\* Lines 91-101: option.children.map(...).filter(...)
CleanChildren(children) ==
  FilterChildren([k \in 1..Len(children) |-> TrimChild(children[k])])

\* Used to refute the canonical form: the content is left as scanned.
TrimContentSkipped(option) == option

\* Line 89: if (option.content) option.content = option.content.trim()
TrimContent(option) ==
  IF option.content # <<>> THEN [option EXCEPT !.content = Trim(@)]
  ELSE option

\* Lines 103-111: a lone Text child of an option without content becomes
\* the option's content.
PromoteOnlyText(option) ==
  IF option.content = <<>> /\ Len(option.children) = 1
     /\ option.children[1].type = "text"
  THEN [option EXCEPT !.content = option.children[1].content,
                      !.children = <<>>]
  ELSE option

\* Lines 113-119: pop a trailing empty Text child when content exists.
PopEmptyLast(option) ==
  IF option.content # <<>> /\ Len(option.children) > 0
     /\ option.children[Len(option.children)].type = "text"
     /\ option.children[Len(option.children)].content = <<>>
  THEN [option EXCEPT !.children = SubSeq(@, 1, Len(@) - 1)]
  ELSE option

\* Lines 88-121: the clean-up after the scan of an option.
CleanOption(option) ==
  PopEmptyLast(PromoteOnlyText(
    [TrimContent(option) EXCEPT !.children = CleanChildren(@)]))

\* Line 83: processingIndex = nextBrace + 1, after a nested choice that
\* did not parse.
SkipNestedBrace(nextBrace) == nextBrace + 1

\* Used to refute termination: the scan stays on the brace.
StayOnBrace(nextBrace) == nextBrace

\* Line 261: currentIndex = nextBrace + 1, after a '{' taken as literal
\* text.
SkipLiteralBrace(nextBrace) == nextBrace + 1

\* Lines 39-45: the next '{' when it lies before endIndex, else -1.
NextBraceBefore(braceIndex, endIndex) ==
  IF braceIndex # -1 /\ braceIndex < endIndex THEN braceIndex ELSE -1

\* Lines 50-52 and 63-65: str.substring(a, b).replace(/\r\n|\r|\n/g, " ")
TextBetween(str, a, b) == ReplaceNewlines(Substring(str, a, b))

\* Used to refute that a Choice has an Option: an Option without content
\* and children is not pushed.
PushOptionWithContent(children, optionNode) ==
  IF optionNode.option.content = <<>> /\ optionNode.option.children = <<>>
  THEN [children |-> children, ok |-> optionNode.ok]
  ELSE [children |-> Append(children, optionNode.option),
        ok |-> optionNode.ok]

\* if (optionNode) choice.children.push(optionNode), with the flag of the
\* option's scan.
PushOption(children, optionNode) ==
  [children |-> Append(children, optionNode.option), ok |-> optionNode.ok]

\* The value of parseChoice's loop variables when its loop is left.
LoopExit(i, optionStartIndex, braceDepth, pushed) ==
  [i |-> i, optionStartIndex |-> optionStartIndex,
   braceDepth |-> braceDepth, children |-> pushed.children,
   ok |-> pushed.ok]

\* Lines 198-199: success = braceDepth === 0, and the returned object.
ChoiceReturn(loop, pushed) ==
  [choiceNode |-> IF loop.braceDepth = 0 THEN ChoiceNode(pushed.children)
                  ELSE Null,
   endIndex |-> loop.i,
   ok |-> loop.ok /\ pushed.ok]

RECURSIVE OptionLoop(_, _, _, _), OptionAdvance(_, _, _, _, _, _),
          OptionNested(_, _, _, _, _, _), OptionStep(_, _, _, _, _),
          parseOptionContent(_, _, _), ChoiceLoop(_, _, _, _, _),
          ChoiceSeparator(_, _, _, _), ChoiceEnd(_, _), parseChoice(_, _)

\* The end of an iteration of parseOptionContent's loop: the loop goes on
\* from the new processingIndex, which must lie beyond the old one for the
\* loop to end.
OptionAdvance(str, endIndex, processingIndex, next, option, ok) ==
  IF ok /\ next > processingIndex
  THEN OptionLoop(str, endIndex, next, option)
  ELSE [option |-> option, ok |-> FALSE]

\* Lines 74-84: the nested choice is pushed, or its '{' is skipped.
OptionNested(str, endIndex, processingIndex, option, nextBrace, nested) ==
  IF nested.choiceNode # Null
  THEN OptionAdvance(str, endIndex, processingIndex, nested.endIndex,
                     [option EXCEPT
                        !.children = Append(@, nested.choiceNode)],
                     nested.ok)
  ELSE OptionAdvance(str, endIndex, processingIndex,
                     SkipNestedBrace(nextBrace), option, nested.ok)

\* Lines 47-85: one iteration of the loop, given nextBrace.
OptionStep(str, endIndex, processingIndex, option, nextBrace) ==
  IF nextBrace = -1
  THEN OptionAdvance(str, endIndex, processingIndex, endIndex,
                     AddOptionText(option,
                       TextBetween(str, processingIndex, endIndex)),
                     TRUE)
  ELSE OptionNested(str, endIndex, processingIndex,
                    AddOptionText(option,
                      TextBetween(str, processingIndex, nextBrace)),
                    nextBrace, parseChoice(str, nextBrace))

\* The while loop of parseOptionContent (lines 38-86).
OptionLoop(str, endIndex, processingIndex, option) ==
  IF ~(processingIndex < endIndex) THEN [option |-> option, ok |-> TRUE]
  ELSE OptionStep(str, endIndex, processingIndex, option,
                  NextBraceBefore(IndexOf(str, "{", processingIndex),
                                  endIndex))

\* The scanned option, cleaned.
Cleaned(scanned) ==
  [option |-> CleanOption(scanned.option), ok |-> scanned.ok]

\* parseOptionContent(str, startIndex, endIndex), lines 29-122.
parseOptionContent(str, startIndex, endIndex) ==
  Cleaned(OptionLoop(str, endIndex, startIndex, OptionNode(<<>>, <<>>)))

\* Lines 169-176: after a separator the loop goes on behind it.
ChoiceSeparator(str, i, braceDepth, pushed) ==
  IF pushed.ok
  THEN ChoiceLoop(str, i + 1, i + 1, braceDepth, pushed.children)
  ELSE LoopExit(i, i, braceDepth, pushed)

\* The while loop of parseChoice (lines 147-183).  The result is the
\* value of the loop's variables when the loop is left.
ChoiceLoop(str, i, optionStartIndex, braceDepth, children) ==
  IF ~(i < Len(str))
  THEN LoopExit(i, optionStartIndex, braceDepth,
                [children |-> children, ok |-> TRUE])
  ELSE IF CharAt(str, i) = "{"
  THEN ChoiceLoop(str, i + 1, optionStartIndex, braceDepth + 1, children)
  ELSE IF CharAt(str, i) = "}"
  THEN IF braceDepth - 1 = 0
       THEN LoopExit(i + 1, optionStartIndex, braceDepth - 1,
                     PushOption(children,
                       parseOptionContent(str, optionStartIndex, i)))
       ELSE IF braceDepth - 1 < 0
       THEN LoopExit(i, optionStartIndex, braceDepth - 1,
                     PushOption(children,
                       parseOptionContent(str, optionStartIndex, i)))
       ELSE ChoiceLoop(str, i + 1, optionStartIndex, braceDepth - 1,
                       children)
  ELSE IF CharAt(str, i) = "|" /\ braceDepth = 1
  THEN ChoiceSeparator(str, i, braceDepth,
                       PushOption(children,
                         parseOptionContent(str, optionStartIndex, i)))
  ELSE ChoiceLoop(str, i + 1, optionStartIndex, braceDepth, children)

\* Lines 185-199: the option of an unterminated choice is pushed, and the
\* result is returned.
ChoiceEnd(str, loop) ==
  IF loop.braceDepth # 0 /\ loop.i = Len(str)
     /\ loop.i > loop.optionStartIndex
  THEN ChoiceReturn(loop,
         PushOption(loop.children,
           parseOptionContent(str, loop.optionStartIndex, loop.i)))
  ELSE ChoiceReturn(loop, [children |-> loop.children, ok |-> TRUE])

\* parseChoice(str, startIndex), lines 132-200.
parseChoice(str, startIndex) ==
  IF startIndex >= Len(str) - 1 \/ CharAt(str, startIndex) # "{"
  THEN [choiceNode |-> Null, endIndex |-> startIndex + 1, ok |-> TRUE]
  ELSE ChoiceEnd(str,
         ChoiceLoop(str, startIndex + 1, startIndex + 1, 1, <<>>))

\* Used to refute that top-level text keeps its spacing: the text before
\* the brace is trimmed.
PushTextBeforeTrimmed(children, nextBrace, currentIndex, textBefore) ==
  IF nextBrace > currentIndex /\ textBefore # <<>>
  THEN Append(children, TextNode(Trim(textBefore)))
  ELSE children

\* Lines 232-239: the text before the brace is pushed when it is not empty.
PushTextBefore(children, nextBrace, currentIndex, textBefore) ==
  IF nextBrace > currentIndex /\ textBefore # <<>>
  THEN Append(children, TextNode(textBefore))
  ELSE children

\* Lines 223-228: the remaining text is pushed when it is not empty.
PushRemaining(children, remainingText) ==
  IF remainingText # <<>> THEN Append(children, TextNode(remainingText))
  ELSE children

\* Lines 245-252: a choice with options is pushed, an empty one is skipped.
PushChoice(children, choiceNode) ==
  IF Len(choiceNode.children) > 0 THEN Append(children, choiceNode)
  ELSE children

RECURSIVE RootLoop(_, _, _), RootAdvance(_, _, _, _, _),
          RootChoice(_, _, _, _, _), RootStep(_, _, _, _)

\* The end of an iteration of parseSpintax's loop.
RootAdvance(sourceText, currentIndex, next, children, ok) ==
  IF ok /\ next > currentIndex
  THEN RootLoop(sourceText, next, children)
  ELSE [rootNode |-> RootNode(children), ok |-> FALSE]

\* Lines 242-262: the choice is pushed, or its '{' becomes literal text.
RootChoice(sourceText, currentIndex, children, nextBrace, choiceResult) ==
  IF choiceResult.choiceNode # Null
  THEN RootAdvance(sourceText, currentIndex, choiceResult.endIndex,
                   PushChoice(children, choiceResult.choiceNode),
                   choiceResult.ok)
  ELSE RootAdvance(sourceText, currentIndex, SkipLiteralBrace(nextBrace),
                   Append(children, TextNode(<<"{">>)), choiceResult.ok)

\* Lines 221-263: one iteration of the loop, given nextBrace.
RootStep(sourceText, currentIndex, children, nextBrace) ==
  IF nextBrace = -1
  THEN [rootNode |->
          RootNode(PushRemaining(children,
                     TextBetween(sourceText, currentIndex,
                                 Len(sourceText)))),
        ok |-> TRUE]
  ELSE RootChoice(sourceText, currentIndex,
                  PushTextBefore(children, nextBrace, currentIndex,
                    TextBetween(sourceText, currentIndex, nextBrace)),
                  nextBrace, parseChoice(sourceText, nextBrace))

\* The while loop of parseSpintax (lines 219-264).
RootLoop(sourceText, currentIndex, children) ==
  IF ~(currentIndex < Len(sourceText))
  THEN [rootNode |-> RootNode(children), ok |-> TRUE]
  ELSE RootStep(sourceText, currentIndex, children,
                IndexOf(sourceText, "{", currentIndex))

\* An input of parseSpintax: a string, or null / undefined.
Str(chars) == [isString |-> TRUE, chars |-> chars]

NullText == [isString |-> FALSE, chars |-> <<>>]

\* parseSpintax(text), lines 208-266, with the termination flag.
parseSpintaxRun(input) ==
  IF ~input.isString \/ input.chars = <<>>
  THEN [rootNode |-> RootNode(<<>>), ok |-> TRUE]
  ELSE RootLoop(Trim(input.chars), 0, <<>>)

parseSpintax(input) == parseSpintaxRun(input).rootNode

(***************************************************************************)
(* The serializer (src/lib/spintax/calculator.ts, lines 98-130).           *)
(***************************************************************************)

\* Array.prototype.join(sep) on an array of strings.
RECURSIVE Join(_, _)
Join(parts, sep) ==
  IF parts = <<>> THEN <<>>
  ELSE IF Len(parts) = 1 THEN parts[1]
  ELSE parts[1] \o sep \o Join(Tail(parts), sep)

\* node.content || "" and node.children of a node that may lack the field.
ContentOf(node) == IF "content" \in DOMAIN node THEN node.content ELSE <<>>

ChildrenOf(node) == IF "children" \in DOMAIN node THEN node.children ELSE <<>>

\* Used to refute the serializer's claims: a Choice of one Option written
\* without its braces.
ChoiceTextBare(options) ==
  IF Len(options) = 1 THEN options[1]
  ELSE <<"{">> \o Join(options, <<"|">>) \o <<"}">>

\* Line 120: `{${options.join("|")}}`
ChoiceText(options) == <<"{">> \o Join(options, <<"|">>) \o <<"}">>

RECURSIVE generateSpintax(_)

\* Used to refute the serializer's rules: an Option written without its
\* own content.
generateSpintaxChildrenOnly(node) ==
  IF node = Null THEN <<>>
  ELSE IF node.type = "text" THEN ContentOf(node)
  ELSE IF node.type = "option"
  THEN Join([k \in 1..Len(node.children) |->
               generateSpintax(node.children[k])], <<>>)
  ELSE IF node.type = "choice"
  THEN IF Len(ChildrenOf(node)) = 0 THEN <<"{", "}">>
       ELSE ChoiceText([k \in 1..Len(node.children) |->
                          generateSpintax(node.children[k])])
  ELSE IF node.type = "root"
  THEN Join([k \in 1..Len(node.children) |->
               generateSpintax(node.children[k])], <<>>)
  ELSE <<>>

generateSpintax(node) ==
  IF node = Null THEN <<>>
  ELSE IF node.type = "text" THEN ContentOf(node)
  ELSE IF node.type = "option"
  THEN LET childContent ==
             Join([k \in 1..Len(node.children) |->
                     generateSpintax(node.children[k])], <<>>)
       IN ContentOf(node) \o childContent
  ELSE IF node.type = "choice"
  THEN IF Len(ChildrenOf(node)) = 0 THEN <<"{", "}">>
       ELSE LET options == [k \in 1..Len(node.children) |->
                              generateSpintax(node.children[k])]
            IN ChoiceText(options)
  ELSE IF node.type = "root"
  THEN Join([k \in 1..Len(node.children) |->
               generateSpintax(node.children[k])], <<>>)
  ELSE <<>>

(***************************************************************************)
(* The variation counter (src/lib/spintax/calculator.ts, lines 14-84).     *)
(***************************************************************************)
MAX_VARIATIONS == 1000000

\* The IEEE value Infinity, above every finite count: the largest integer
\* of the model.
Infinity == 2147483647

\* a * b on JavaScript numbers, for the non-negative integers the counter
\* multiplies.  A product beyond the model's integers is Infinity here; it
\* is only ever compared with MAX_VARIATIONS.
Times(a, b) ==
  IF a = 0 \/ b = 0 THEN 0
  ELSE IF a > Infinity \div b THEN Infinity
  ELSE a * b

RECURSIVE calculateVariations(_), ProductLoop(_, _, _), SumLoop(_, _, _)

\* Used to refute multiplicativity: = in the place of *=.
ProductLoopAssigns(children, k, acc) ==
  IF k > Len(children) THEN acc
  ELSE LET childVar == calculateVariations(children[k]) IN
       IF childVar = Infinity THEN Infinity
       ELSE IF childVar > MAX_VARIATIONS THEN Infinity
       ELSE ProductLoop(children, k + 1, childVar)

\* Used to refute the overflow rule: >= in the place of >.
ProductLoopCeilingExcluded(children, k, acc) ==
  IF k > Len(children) THEN acc
  ELSE LET childVar == calculateVariations(children[k]) IN
       IF childVar = Infinity THEN Infinity
       ELSE LET product == Times(acc, childVar) IN
            IF product >= MAX_VARIATIONS THEN Infinity
            ELSE ProductLoop(children, k + 1, product)

\* The for loops of the option and root cases (lines 32-39, 65-72).
ProductLoop(children, k, acc) ==
  IF k > Len(children) THEN acc
  ELSE LET childVar == calculateVariations(children[k]) IN
       IF childVar = Infinity THEN Infinity
       ELSE LET product == Times(acc, childVar) IN
            IF product > MAX_VARIATIONS THEN Infinity
            ELSE ProductLoop(children, k + 1, product)

\* Used to refute the count of selections: the Options are counted, not
\* their variations.
SumLoopCountsOptions(children, k, acc) ==
  IF k > Len(children) THEN acc
  ELSE LET optionVars == calculateVariations(children[k]) IN
       IF optionVars = Infinity THEN Infinity
       ELSE LET sum == acc + 1 IN
            IF sum > MAX_VARIATIONS THEN Infinity
            ELSE SumLoop(children, k + 1, sum)

\* The for loop of the choice case (lines 48-55).
SumLoop(children, k, acc) ==
  IF k > Len(children) THEN acc
  ELSE LET optionVars == calculateVariations(children[k]) IN
       IF optionVars = Infinity THEN Infinity
       ELSE LET sum == acc + optionVars IN
            IF sum > MAX_VARIATIONS THEN Infinity
            ELSE SumLoop(children, k + 1, sum)

\* Used to refute positivity: a node without children counted as 0.
calculateVariationsEmptyZero(node) ==
  IF node = Null THEN 1
  ELSE IF node.type = "text" THEN 1
  ELSE IF node.type = "option" THEN ProductLoop(node.children, 1, 1)
  ELSE IF node.type = "choice"
  THEN IF Len(ChildrenOf(node)) = 0 THEN 0
       ELSE SumLoop(node.children, 1, 0)
  ELSE IF node.type = "root"
  THEN IF Len(ChildrenOf(node)) = 0 THEN 0
       ELSE ProductLoop(node.children, 1, 1)
  ELSE 1

calculateVariations(node) ==
  IF node = Null THEN 1
  ELSE IF node.type = "text" THEN 1
  ELSE IF node.type = "option" THEN ProductLoop(node.children, 1, 1)
  ELSE IF node.type = "choice"
  THEN IF Len(ChildrenOf(node)) = 0 THEN 1
       ELSE LET choiceVariations == SumLoop(node.children, 1, 0)
            IN IF choiceVariations = 0 THEN 1 ELSE choiceVariations
  ELSE IF node.type = "root"
  THEN IF Len(ChildrenOf(node)) = 0 THEN 1
       ELSE ProductLoop(node.children, 1, 1)
  ELSE 1

(***************************************************************************)
(* The random renderer (src/lib/spintax/calculator.ts, lines 139-180).     *)
(*                                                                         *)
(* Math.random() is a draw k of 0..RandomSteps-1 standing for the number   *)
(* k / RandomSteps of [0, 1); rnd is the sequence of the draws the call    *)
(* consumes, in order.                                                     *)
(***************************************************************************)
RandomSteps == 4

\* Used to refute the renderer's claim: Math.round in the place of
\* Math.floor.
RandomIndexRounded(draw, length) ==
  (2 * draw * length + RandomSteps) \div (2 * RandomSteps)

\* Math.floor(Math.random() * length)
RandomIndex(draw, length) == (draw * length) \div RandomSteps

RECURSIVE generateRandomVariantRun(_, _), VariantOfChildren(_, _)

\* children.map((child) => generateRandomVariant(child)).join("")
VariantOfChildren(children, rnd) ==
  IF children = <<>> THEN [out |-> <<>>, rnd |-> rnd]
  ELSE LET first == generateRandomVariantRun(Head(children), rnd)
           rest == VariantOfChildren(Tail(children), first.rnd)
       IN [out |-> first.out \o rest.out, rnd |-> rest.rnd]

generateRandomVariantRun(node, rnd) ==
  IF node = Null THEN [out |-> <<>>, rnd |-> rnd]
  ELSE IF node.type = "text" THEN [out |-> ContentOf(node), rnd |-> rnd]
  ELSE IF node.type = "option"
  THEN LET childContentOption == VariantOfChildren(node.children, rnd)
       IN [out |-> ContentOf(node) \o childContentOption.out,
           rnd |-> childContentOption.rnd]
  ELSE IF node.type = "choice"
  THEN IF Len(ChildrenOf(node)) = 0 THEN [out |-> <<>>, rnd |-> rnd]
       ELSE LET randomIndexChoice ==
                  RandomIndex(Head(rnd), Len(node.children))
                \* an index past the end reads undefined
                chosenOptionChoice ==
                  IF randomIndexChoice < Len(node.children)
                  THEN node.children[randomIndexChoice + 1]
                  ELSE Null
            IN generateRandomVariantRun(chosenOptionChoice, Tail(rnd))
  ELSE IF node.type = "root" THEN VariantOfChildren(node.children, rnd)
  ELSE [out |-> <<>>, rnd |-> rnd]

generateRandomVariant(node, rnd) == generateRandomVariantRun(node, rnd).out

(***************************************************************************)
(* Path addressing (lib/treeUtils: getNodeByPathInDraft).                  *)
(*                                                                         *)
(* A path is an array of strings and numbers; an element is a record       *)
(* naming its JavaScript type and value.                                   *)
(***************************************************************************)
PathString(s) == [kind |-> "string", s |-> s, n |-> 0]

PathNumber(n) == [kind |-> "number", s |-> "", n |-> n]

Undefined == [kind |-> "undefined", s |-> "", n |-> 0]

\* path[i] of an array, undefined beyond its end.
PathAt(p, i) == IF i >= 0 /\ i < Len(p) THEN p[i + 1] ELSE Undefined

RECURSIVE PathLoop(_, _, _)

\* Used to refute hop validation: the name of the field is not looked at.
PathLoopAnyField(current, p, i) ==
  IF ~(i < Len(p)) THEN current
  ELSE
    LET index == PathAt(p, i + 1)
    IN IF "children" \in DOMAIN current
       THEN LET children == current.children
                isNode == index.kind = "number"
                          /\ index.n >= 0 /\ index.n < Len(children)
            IN IF ~isNode THEN Null
               ELSE PathLoop(children[index.n + 1], p, i + 2)
       ELSE Null

\* The for loop of getNodeByPathInDraft (lines 15-57).
PathLoop(current, p, i) ==
  IF ~(i < Len(p)) THEN current
  ELSE
    LET prop == PathAt(p, i)
        index == PathAt(p, i + 1)
    IN IF prop = PathString("children") /\ "children" \in DOMAIN current
       THEN LET children == current.children
                \* a comparison with undefined or a non-numeric string is
                \* false
                rejected == index.kind = "number"
                            /\ (Len(children) <= index.n \/ index.n < 0)
                \* children[index] is undefined for any other key
                isNode == index.kind = "number"
                          /\ index.n >= 0 /\ index.n < Len(children)
            IN IF rejected THEN Null
               ELSE IF ~isNode THEN Null
               ELSE PathLoop(children[index.n + 1], p, i + 2)
       ELSE Null

getNodeByPathInDraft(draft, p) ==
  IF Len(p) = 0 THEN draft ELSE PathLoop(draft, p, 0)

(***************************************************************************)
(* The edit engine of the history hook (hooks/useSpintaxTree.ts).          *)
(*                                                                         *)
(* A recipe run by immer's produce either returns, with the draft as the   *)
(* recipe left it, or throws.  wrote tells whether the recipe assigned     *)
(* anything to the draft: produce returns its base object when it did not, *)
(* and React then sees no change of the tree.                              *)
(***************************************************************************)
Returned(draft, wrote) ==
  [threw |-> FALSE, message |-> "", tree |-> draft, wrote |-> wrote]

Thrown(message) ==
  [threw |-> TRUE, message |-> message, tree |-> Null, wrote |-> FALSE]

\* error: string | null
NoError == [isNull |-> TRUE, message |-> ""]

ErrorText(message) == [isNull |-> FALSE, message |-> message]

\* The start index Array.prototype.splice works at: a negative start
\* counts from the end, and the result is clamped to [0, length].
SpliceStart(length, start) ==
  IF start < 0 THEN Max(length + start, 0) ELSE Min(start, length)

\* arr.splice(start, 1), the array afterwards.
SpliceOut(arr, start) ==
  SubSeq(arr, 1, SpliceStart(Len(arr), start))
    \o SubSeq(arr, SpliceStart(Len(arr), start) + 2, Len(arr))

\* arr.splice(start, 0, item), the array afterwards.
SpliceIn(arr, start, item) ==
  SubSeq(arr, 1, SpliceStart(Len(arr), start)) \o <<item>>
    \o SubSeq(arr, SpliceStart(Len(arr), start) + 1, Len(arr))

\* path.slice(0, -2)
ParentPath(p) == SubSeq(p, 1, Len(p) - 2)

\* path[path.length - 2]
ParentProperty(p) == PathAt(p, Len(p) - 2)

\* path[path.length - 1]
LastIndex(p) == PathAt(p, Len(p) - 1)

\* parent.children.length > nodeIndex && nodeIndex >= 0: a comparison of a
\* number with a string that is no number is false.
IndexInRange(children, index) ==
  index.kind = "number" /\ Len(children) > index.n /\ index.n >= 0

\* parent && parentProperty === "children" && (parent.type === "root" ||
\* parent.type === "choice" || parent.type === "option")
IsContainer(parent, parentProperty) ==
  /\ parent # Null
  /\ parentProperty = PathString("children")
  /\ parent.type \in {"root", "choice", "option"}

\* The draft after the children of the node at parentPath were assigned:
\* the produced tree has the new list at that node and is the base
\* elsewhere.  parentPath is a path getNodeByPathInDraft has resolved.
RECURSIVE WithChildrenAt(_, _, _)

\* Used to refute the frame of an edit: on the way to the parent the
\* siblings that follow are dropped.
WithChildrenAtCutting(draft, parentPath, children) ==
  IF parentPath = <<>> THEN [draft EXCEPT !.children = children]
  ELSE [draft EXCEPT
          !.children =
             Append(SubSeq(@, 1, parentPath[2].n),
                    WithChildrenAt(@[parentPath[2].n + 1],
                                   Tail(Tail(parentPath)), children))]

WithChildrenAt(draft, parentPath, children) ==
  IF parentPath = <<>> THEN [draft EXCEPT !.children = children]
  ELSE [draft EXCEPT
          !.children[parentPath[2].n + 1] =
             WithChildrenAt(@, Tail(Tail(parentPath)), children)]

\* Object.assign(draft, updatedNode): the own fields of updatedNode are
\* assigned to the draft.
ObjectAssign(draft, updatedNode) ==
  [k \in DOMAIN draft \cup DOMAIN updatedNode |->
     IF k \in DOMAIN updatedNode THEN updatedNode[k] ELSE draft[k]]

\* The second argument of updateNode: a node, or a function from the
\* current node to a node or null.  The functions are the reorder
\* callbacks of the node editor and one that returns null.
NodeValue(node) ==
  [isFunction |-> FALSE, name |-> "", currentIndex |-> 0, node |-> node]

Updater(name, currentIndex) ==
  [isFunction |-> TRUE, name |-> name, currentIndex |-> currentIndex,
   node |-> Null]

\* What a call of newNodeOrFn gives: the node, and whether it is the very
\* object the function was given.
Fresh(node) == [node |-> node, same |-> FALSE]

Same(node) == [node |-> node, same |-> TRUE]

\* Lines 404-406 and 456-458 of the node editor: the child at currentIndex
\* is spliced out and spliced in again at target.
Moved(children, currentIndex, target) ==
  SpliceIn(SpliceOut(children, currentIndex), target,
           children[currentIndex + 1])

\* Used to refute the test of a Choice's children: the new children are
\* taken as they are.
WithMovedUntested(parentNode, newChildren) ==
  IF parentNode.type \in {"root", "choice", "option"}
  THEN Fresh([parentNode EXCEPT !.children = newChildren])
  ELSE Same(parentNode)

\* Lines 409-426 and 461-478: the node returned for the new children.
WithMoved(parentNode, newChildren) ==
  IF parentNode.type = "root"
  THEN Fresh([parentNode EXCEPT !.children = newChildren])
  ELSE IF parentNode.type = "choice"
  THEN IF \A k \in 1..Len(newChildren) : newChildren[k].type = "option"
       THEN Fresh([parentNode EXCEPT !.children = newChildren])
       ELSE Same(parentNode)
  ELSE IF parentNode.type = "option"
  THEN Fresh([parentNode EXCEPT !.children = newChildren])
  ELSE Same(parentNode)

\* The callback of handleMoveUp (node editor, lines 379-427).
MoveUpCallback(parentNode, currentIndex) ==
  IF parentNode = Null THEN Same(parentNode)
  ELSE IF parentNode.type = "text" THEN Same(parentNode)
  ELSE IF "children" \notin DOMAIN parentNode THEN Same(parentNode)
  ELSE IF currentIndex >= Len(parentNode.children) THEN Same(parentNode)
  ELSE WithMoved(parentNode,
                 Moved(parentNode.children, currentIndex, currentIndex - 1))

\* The callback of handleMoveDown (node editor, lines 436-479).
MoveDownCallback(parentNode, currentIndex) ==
  IF parentNode = Null THEN Same(parentNode)
  ELSE IF parentNode.type = "text" THEN Same(parentNode)
  ELSE IF "children" \notin DOMAIN parentNode THEN Same(parentNode)
  ELSE IF currentIndex < 0 \/ currentIndex >= Len(parentNode.children) - 1
  THEN Same(parentNode)
  ELSE WithMoved(parentNode,
                 Moved(parentNode.children, currentIndex, currentIndex + 1))

\* typeof newNodeOrFn === "function" ? newNodeOrFn(currentNode)
\*                                    : newNodeOrFn
CallUpdater(newNodeOrFn, currentNode) ==
  IF ~newNodeOrFn.isFunction THEN Fresh(newNodeOrFn.node)
  ELSE IF newNodeOrFn.name = "moveUp"
  THEN MoveUpCallback(currentNode, newNodeOrFn.currentIndex)
  ELSE IF newNodeOrFn.name = "moveDown"
  THEN MoveDownCallback(currentNode, newNodeOrFn.currentIndex)
  ELSE Fresh(Null)

\* Lines 213-231 of updateNode: the update of the root.
UpdateRoot(draft, updated) ==
  IF updated.node = Null THEN Returned(draft, FALSE)
  ELSE IF updated.node.type # "root"
  THEN Thrown("Cannot replace root with non-root node")
  ELSE Returned(ObjectAssign(draft, updated.node), ~updated.same)

\* Lines 244-298 of updateNode: the update of a child of parent.
UpdateChild(draft, p, updated, parent) ==
  IF updated.node = Null THEN Returned(draft, FALSE)
  ELSE IF IsContainer(parent, ParentProperty(p))
  THEN IF IndexInRange(parent.children, LastIndex(p))
       THEN Returned(
              WithChildrenAt(draft, ParentPath(p),
                [parent.children EXCEPT ![LastIndex(p).n + 1] =
                                          updated.node]),
              ~updated.same)
       ELSE Thrown(
              "Invalid target location for node update: Index out of bounds")
  ELSE Thrown("Invalid target location for node update")

\* The recipe of updateNode (lines 211-299).
UpdateRecipe(draft, p, newNodeOrFn) ==
  IF Len(p) = 0 THEN UpdateRoot(draft, CallUpdater(newNodeOrFn, draft))
  ELSE UpdateChild(draft, p,
         CallUpdater(newNodeOrFn,
                     IF newNodeOrFn.isFunction
                     THEN getNodeByPathInDraft(draft, p) ELSE Null),
         getNodeByPathInDraft(draft, ParentPath(p)))

\* Used to refute the rejection of an index out of range: the index is
\* handed to splice as it is.
DeleteFromUnchecked(draft, p, parent) ==
  IF IsContainer(parent, ParentProperty(p))
  THEN Returned(
         WithChildrenAt(draft, ParentPath(p),
           SpliceOut(parent.children, LastIndex(p).n)),
         TRUE)
  ELSE Thrown("Invalid target location for node deletion")

\* The recipe of deleteNode (lines 325-373).
DeleteFrom(draft, p, parent) ==
  IF IsContainer(parent, ParentProperty(p))
  THEN IF IndexInRange(parent.children, LastIndex(p))
       THEN Returned(
              WithChildrenAt(draft, ParentPath(p),
                SpliceOut(parent.children, LastIndex(p).n)),
              TRUE)
       ELSE Thrown(
              "Invalid target location for node deletion: Index out of bounds")
  ELSE Thrown("Invalid target location for node deletion")

DeleteRecipe(draft, p) ==
  DeleteFrom(draft, p, getNodeByPathInDraft(draft, ParentPath(p)))

\* Used to refute the clamp: the target index is handed to splice as it
\* is.
ValidIndexUnclamped(targetIndex, length) ==
  IF targetIndex.kind = "number" THEN targetIndex.n ELSE 0

\* Lines 416-419: Math.max(0, Math.min(targetIndex, length)).  For a
\* target that is no number the result is NaN, which splice takes as 0.
ValidIndex(targetIndex, length) ==
  IF targetIndex.kind = "number" THEN Max(0, Min(targetIndex.n, length))
  ELSE 0

\* The recipe of addNode (lines 399-447).
AddInto(draft, p, newNode, parent) ==
  IF IsContainer(parent, ParentProperty(p))
  THEN Returned(
         WithChildrenAt(draft, ParentPath(p),
           SpliceIn(parent.children,
                    ValidIndex(LastIndex(p), Len(parent.children)),
                    newNode)),
         TRUE)
  ELSE Thrown("Invalid target location for node addition")

AddRecipe(draft, p, newNode) ==
  AddInto(draft, p, newNode, getNodeByPathInDraft(draft, ParentPath(p)))

\* Used to refute isolation: the recipe is applied to prevTree itself.
TryInPlace(prevTree, result, prefix) ==
  IF result.threw
  THEN [tree |-> prevTree, base |-> prevTree, changed |-> FALSE,
        reported |-> TRUE, error |-> ErrorText(prefix \o result.message),
        escaped |-> FALSE]
  ELSE [tree |-> result.tree, base |-> result.tree,
        changed |-> result.wrote, reported |-> FALSE, error |-> NoError,
        escaped |-> FALSE]

\* try { return produce(prevTree, recipe) } catch (e) { setError(...);
\* return prevTree }: what setTree's updater returns, the error it sets,
\* and whether an exception leaves the updater.  base is the value of the
\* object prevTree once the updater has run: produce applies the recipe
\* to a draft and leaves its base as it is.
TryProduce(prevTree, result, prefix) ==
  IF result.threw
  THEN [tree |-> prevTree, base |-> prevTree, changed |-> FALSE,
        reported |-> TRUE, error |-> ErrorText(prefix \o result.message),
        escaped |-> FALSE]
  ELSE [tree |-> result.tree, base |-> prevTree, changed |-> result.wrote,
        reported |-> FALSE, error |-> NoError, escaped |-> FALSE]

\* An early return of a handler after setError(message).
Refused(prevTree, message) ==
  [tree |-> prevTree, base |-> prevTree, changed |-> FALSE,
   reported |-> TRUE, error |-> ErrorText(message), escaped |-> FALSE]

\* setTree(newTree) with a new tree made without a write to prevTree.
Replaced(prevTree, newTree) ==
  [tree |-> newTree, base |-> prevTree, changed |-> TRUE,
   reported |-> FALSE, error |-> NoError, escaped |-> FALSE]

\* The record of the last call, before any call.
NoCall ==
  [op |-> "none", path |-> <<>>, updater |-> NodeValue(Null),
   text |-> NullText,
   before |-> [tree |-> Null, history |-> <<>>, redoStack |-> <<>>,
               spintaxString |-> <<>>],
   base |-> Null, changed |-> FALSE, reported |-> FALSE,
   escaped |-> FALSE]

\* The record of the successful mutations made in a row, and of the undos
\* and redos that followed them, before any mutation: first is the tree
\* before the first of the mutations, last the state after the last.
NoTrip ==
  [mutations |-> 0, undos |-> 0, redos |-> 0, first |-> Null,
   last |-> [tree |-> Null, history |-> <<>>, redoStack |-> <<>>]]


(***************************************************************************)
(* Inputs.                                                                 *)
(***************************************************************************)
Alphabet == {"a", "{", "}", "|", " ", "\n"}

\* Every string over Alphabet of at most MaxLen characters.
Strings == UNION {[1..n -> Alphabet] : n \in 0..MaxLen}

\* "Hello {world|there}!"
ExHello ==
  <<"H", "e", "l", "l", "o", " ", "{", "w", "o", "r", "l", "d", "|", "t",
    "h", "e", "r", "e", "}", "!">>

\* "{A|B|C}"
ExLetters ==
  <<"{", "A", "|", "B", "|", "C", "}">>

\* "{a {x|y}|b}"
ExNested ==
  <<"{", "a", " ", "{", "x", "|", "y", "}", "|", "b", "}">>

\* "{a|b"
ExUnterminated ==
  <<"{", "a", "|", "b">>

\* "{Hello|Hi|Hey} {world|there|friend}!"
ExReadme ==
  <<"{", "H", "e", "l", "l", "o", "|", "H", "i", "|", "H", "e", "y", "}",
    " ", "{", "w", "o", "r", "l", "d", "|", "t", "h", "e", "r", "e", "|",
    "f", "r", "i", "e", "n", "d", "}", "!">>

\* "a\r\n{b\n|\rc}\td"
ExLineBreaks ==
  <<"a", "\r", "\n", "{", "b", "\n", "|", "\r", "c", "}", "\t", "d">>

\* "{ a{x} b {y}|{z} }"
ExSpaces ==
  <<"{", " ", "a", "{", "x", "}", " ", "b", " ", "{", "y", "}", "|", "{",
    "z", "}", " ", "}">>

\* "{a{b{c|d}e}|f}"
ExDeep ==
  <<"{", "a", "{", "b", "{", "c", "|", "d", "}", "e", "}", "|", "f", "}">>

\* "a}{b|{c}"
ExStray ==
  <<"a", "}", "{", "b", "|", "{", "c", "}">>

\* "a{}b"
ExEmptyChoice ==
  <<"a", "{", "}", "b">>

\* "{a|b}" repeated n times: n binary choices side by side.
RECURSIVE BinaryChoices(_)
BinaryChoices(n) ==
  IF n = 0 THEN <<>> ELSE <<"{", "a", "|", "b", "}">> \o BinaryChoices(n - 1)

Examples ==
  {ExHello, ExLetters, ExNested, ExUnterminated, ExReadme, ExLineBreaks,
   ExSpaces, ExDeep, ExStray, ExEmptyChoice,
   BinaryChoices(MaxSiblings - 1), BinaryChoices(MaxSiblings)}

ParseInputs == {Str(s) : s \in Strings \cup Examples} \cup {NullText}

\* A Choice of m Options, each the text "a".
TextOptions(m) == [j \in 1..m |-> OptionNode(<<"a">>, <<>>)]

\* A Root of k Choices of m Options each: m^k variations.
Siblings(k, m) == RootNode([i \in 1..k |-> ChoiceNode(TextOptions(m))])

\* A Choice between the k Choices above in one Option and the Option "b":
\* m^k + 1 variations.
Wrapped(k, m) ==
  ChoiceNode(<<OptionNode(<<>>, Siblings(k, m).children),
               OptionNode(<<"b">>, <<>>)>>)

\* Choices nested d deep in the first Option: d + 2 variations.
RECURSIVE Nested(_)
Nested(d) ==
  IF d = 0 THEN ChoiceNode(<<OptionNode(<<"a">>, <<>>),
                             OptionNode(<<"b">>, <<>>)>>)
  ELSE ChoiceNode(<<OptionNode(<<"a">>, <<Nested(d - 1)>>),
                    OptionNode(<<"b">>, <<>>)>>)

TreeInputs ==
  {Null, TextNode(<<"a">>), TextNode(<<>>)}
    \cup {Siblings(k, m) : k \in 0..MaxSiblings, m \in 0..MaxOptions}
    \cup {Wrapped(k, m) : k \in 0..MaxSiblings, m \in 0..MaxOptions}
    \cup {Nested(d) : d \in 0..MaxDepth}
    \cup {RootNode(<<Nested(d), TextNode(<<" ">>), Nested(d)>>) :
            d \in 0..MaxDepth}
    \cup {parseSpintax(Str(s)) : s \in Examples}

\* The elements a path is made of.
PathElements ==
  {PathString("children"), PathString("content")}
    \cup {PathNumber(n) : n \in -1..MaxIndex}

\* children, 0, children, 0, ... : n hops down the first children.
RECURSIVE FirstChildPath(_)
FirstChildPath(n) ==
  IF n = 0 THEN <<>>
  ELSE <<PathString("children"), PathNumber(0)>> \o FirstChildPath(n - 1)

PathInputs ==
  UNION {[1..n -> PathElements] : n \in 0..MaxPathLen}
    \cup {FirstChildPath(n) : n \in 0..(2 * MaxDepth + 3)}

PathTrees ==
  {parseSpintax(Str(s)) :
     s \in {ExHello, ExLetters, ExNested, ExSpaces, ExDeep, ExStray}}
    \cup {Nested(d) : d \in 0..MaxDepth}
    \cup {TextNode(<<"a">>), ChoiceNode(<<>>), RootNode(<<>>),
          OptionNode(<<"a">>, <<TextNode(<<"b">>)>>)}

\* One hop of a path: the children property and an index.
Hop(i) == <<PathString("children"), PathNumber(i)>>

\* Paths the edits are called with: the paths of up to four hops whose
\* last two indices run from -1 to MaxEditIndex, and malformed ones.
EditIndices == -1..MaxEditIndex

MalformedPaths ==
  {<<PathString("children")>>, <<PathNumber(0)>>,
   <<PathString("content"), PathNumber(0)>>,
   <<PathString("children"), PathString("children")>>,
   Hop(0) \o <<PathString("content"), PathNumber(0)>>,
   Hop(0) \o <<PathString("children")>>}

WellFormedPaths ==
  {<<>>} \cup {Hop(i) : i \in EditIndices}
    \cup {Hop(i) \o Hop(j) : i, j \in EditIndices}
    \cup {Hop(0) \o Hop(0) \o Hop(j) : j \in EditIndices}
    \cup {Hop(0) \o Hop(0) \o Hop(0) \o Hop(j) : j \in EditIndices}

EditPaths == WellFormedPaths \cup MalformedPaths

EditNodes ==
  {TextNode(<<"x">>), OptionNode(<<"o">>, <<>>),
   OptionNode(<<>>, <<TextNode(<<"x">>)>>),
   ChoiceNode(<<OptionNode(<<"a">>, <<>>)>>),
   RootNode(<<>>), RootNode(<<TextNode(<<"x">>)>>)}

EditUpdaters ==
  {NodeValue(n) : n \in EditNodes} \cup {Updater("returnsNull", 0)}

EditTexts ==
  {<<>>, <<"a">>, ExLetters, ExNested,
   <<"a", "{", "b", "|", "c", "}", "d">>,
   <<"{", "a", "|", "b", "}", "{", "c", "}">>}

\* What the sequences of calls of the hook are made with.
HookTexts == {<<>>, <<"{", "a", "|", "b", "}">>}

HookUpdaters ==
  {NodeValue(TextNode(<<"x">>)), NodeValue(RootNode(<<>>)),
   Updater("returnsNull", 0)}

HookNodes == {TextNode(<<"x">>), OptionNode(<<"o">>, <<>>)}

\* The default content of addTextToRoot.
NewText == <<"n", "e", "w", " ", "t", "e", "x", "t">>

(***************************************************************************)
(* The state: one call sequence of a client of the library.  pc is the     *)
(* client's position; "hung" is a parse that never returns.                *)
(***************************************************************************)
\* The history hook is not mounted.
HookUnused ==
  /\ history = <<>>
  /\ redoStack = <<>>
  /\ error = NoError
  /\ call = NoCall
  /\ calls = 0
  /\ trip = NoTrip

InitParse ==
  /\ text \in ParseInputs
  /\ tree = Null
  /\ spintaxString = <<>>
  /\ reparsed = Null
  /\ variationCount = 0
  /\ randomVariant = <<>>
  /\ path = <<>>
  /\ found = Null
  /\ pc = "input"
  /\ HookUnused

InitTree ==
  /\ text = NullText
  /\ tree \in TreeInputs
  /\ spintaxString = <<>>
  /\ reparsed = Null
  /\ variationCount = 0
  /\ randomVariant = <<>>
  /\ path = <<>>
  /\ found = Null
  /\ pc = "ready"
  /\ HookUnused

InitPath ==
  /\ text = NullText
  /\ tree \in PathTrees
  /\ spintaxString = <<>>
  /\ reparsed = Null
  /\ variationCount = 0
  /\ randomVariant = <<>>
  /\ path = <<>>
  /\ found = Null
  /\ pc = "ready"
  /\ HookUnused

\* tree = parseSpintax(text)
Parse ==
  /\ pc = "input"
  /\ LET run == parseSpintaxRun(text)
     IN /\ tree' = run.rootNode
        /\ pc' = IF run.ok THEN "ready" ELSE "hung"
  /\ UNCHANGED <<text, spintaxString, reparsed, variationCount,
                 randomVariant, path, found>>
  /\ UNCHANGED hookVars

\* spintaxString = generateSpintax(tree)
Generate ==
  /\ pc = "ready"
  /\ spintaxString' = generateSpintax(tree)
  /\ pc' = "generated"
  /\ UNCHANGED <<text, tree, reparsed, variationCount, randomVariant,
                 path, found>>
  /\ UNCHANGED hookVars

\* reparsed = parseSpintax(spintaxString)
Reparse ==
  /\ pc = "generated"
  /\ LET run == parseSpintaxRun(Str(spintaxString))
     IN /\ reparsed' = run.rootNode
        /\ pc' = IF run.ok THEN "reparsed" ELSE "hung"
  /\ UNCHANGED <<text, tree, spintaxString, variationCount, randomVariant,
                 path, found>>
  /\ UNCHANGED hookVars

\* variationCount = calculateVariations(tree)
Count ==
  /\ pc = "ready"
  /\ variationCount' = calculateVariations(tree)
  /\ pc' = "counted"
  /\ UNCHANGED <<text, tree, spintaxString, reparsed, randomVariant,
                 path, found>>
  /\ UNCHANGED hookVars

\* The number of Choice nodes of a tree: no call draws more random numbers.
RECURSIVE NumChoices(_)
NumChoices(node) ==
  LET children == ChildrenOf(node)
      below[k \in 0..Len(children)] ==
        IF k = 0 THEN 0 ELSE below[k - 1] + NumChoices(children[k])
  IN (IF node.type = "choice" THEN 1 ELSE 0) + below[Len(children)]

\* randomVariant = generateRandomVariant(tree), for each outcome of the
\* random draws.
Variant ==
  /\ pc = "ready"
  /\ NumChoices(tree) <= MaxDraws
  /\ \E rnd \in [1..NumChoices(tree) -> 0..(RandomSteps - 1)] :
       randomVariant' = generateRandomVariant(tree, rnd)
  /\ pc' = "sampled"
  /\ UNCHANGED <<text, tree, spintaxString, reparsed, variationCount,
                 path, found>>
  /\ UNCHANGED hookVars

\* found = getNodeByPathInDraft(tree, p)
Resolve ==
  /\ pc = "ready"
  /\ \E p \in PathInputs :
       /\ path' = p
       /\ found' = getNodeByPathInDraft(tree, p)
  /\ pc' = "resolved"
  /\ UNCHANGED <<text, tree, spintaxString, reparsed, variationCount,
                 randomVariant>>
  /\ UNCHANGED hookVars

NextParse == Parse \/ Generate \/ Reparse \/ Count \/ Variant

NextTree == Generate \/ Count \/ Variant

NextPath == Resolve

\* Strings parsed, serialized, parsed again, counted and sampled.
SpecParse == InitParse /\ [][NextParse]_vars

\* Trees given as values, serialized, counted and sampled.
SpecTree == InitTree /\ [][NextTree]_vars

\* Paths resolved against trees.
SpecPath == InitPath /\ [][NextPath]_vars

(***************************************************************************)
(* The history hook (hooks/useSpintaxTree.ts).  Each action is one call of *)
(* a function the hook returns, run to completion: the state updates the   *)
(* handler queues, and the effect that follows a change of the tree.       *)
(* call records the last call: its arguments, the state it was made in     *)
(* and how it ended.                                                       *)
(***************************************************************************)
MAX_HISTORY_SIZE == 50

\* Used to refute the bound of the history: the push never cuts.
PushedHistoryUncut(prev, prevTree) ==
  <<prevTree>> \o prev

\* Lines 167-174: [prevTree, ...prev], cut to MAX_HISTORY_SIZE entries.
PushedHistory(prev, prevTree) ==
  IF Len(<<prevTree>> \o prev) > MAX_HISTORY_SIZE
  THEN SubSeq(<<prevTree>> \o prev, 1, MAX_HISTORY_SIZE)
  ELSE <<prevTree>> \o prev

\* Used to refute the reset of the redo stack: the push leaves it.
addToHistoryKeepingRedo(prevTree) ==
  /\ history' = PushedHistory(history, prevTree)
  /\ redoStack' = redoStack

\* addToHistory(prevTree), lines 167-177.  The entry pushed is the object
\* prevTree, so its value is the one that object has once the handler has
\* run.
addToHistory(prevTree) ==
  /\ history' = PushedHistory(history, prevTree)
  /\ redoStack' = <<>>

\* The state a call is made in.
Before ==
  [tree |-> tree, history |-> history, redoStack |-> redoStack,
   spintaxString |-> spintaxString]

Called(op, p, updater, spintax, outcome) ==
  [op |-> op, path |-> p, updater |-> updater, text |-> spintax,
   before |-> Before, base |-> outcome.base, changed |-> outcome.changed,
   reported |-> outcome.reported, escaped |-> outcome.escaped]

\* setTree(outcome.tree), the setError of the handler, and the effect of
\* lines 162-164, which runs updateDerivedState (lines 143-159) when the
\* tree has changed.
SetTree(outcome) ==
  /\ tree' = outcome.tree
  /\ error' = IF outcome.changed THEN NoError
              ELSE IF outcome.reported THEN outcome.error
              ELSE error
  /\ spintaxString' = IF outcome.changed THEN generateSpintax(outcome.tree)
                      ELSE spintaxString
  /\ variationCount' = IF outcome.changed
                       THEN calculateVariations(outcome.tree)
                       ELSE variationCount
  /\ UNCHANGED <<text, reparsed, randomVariant, path, found, pc>>

\* updateNode(path, newNodeOrFn), lines 199-310; op and asked name the
\* handler that made the call and the path it was given.
UpdateNodeFor(op, asked, p, newNodeOrFn) ==
  LET outcome == TryProduce(tree, UpdateRecipe(tree, p, newNodeOrFn),
                            "Error updating node: ")
  IN /\ addToHistory(outcome.base)
     /\ SetTree(outcome)
     /\ call' = Called(op, asked, newNodeOrFn, NullText, outcome)

updateNode(p, newNodeOrFn) == UpdateNodeFor("updateNode", p, p, newNodeOrFn)

\* deleteNode(path), lines 313-384.
deleteNode(p) ==
  IF Len(p) < 2
  THEN /\ SetTree(Refused(tree, "Cannot delete root node"))
       /\ call' = Called("deleteNode", p, NodeValue(Null), NullText,
                         Refused(tree, "Cannot delete root node"))
       /\ UNCHANGED <<history, redoStack>>
  ELSE LET outcome == TryProduce(tree, DeleteRecipe(tree, p),
                                 "Error deleting node: ")
       IN /\ addToHistory(outcome.base)
          /\ SetTree(outcome)
          /\ call' = Called("deleteNode", p, NodeValue(Null), NullText,
                            outcome)

\* addNode(path, newNode), lines 387-458.
addNode(p, newNode) ==
  IF Len(p) < 2 \/ newNode = Null
  THEN /\ SetTree(Refused(tree, "Invalid path or node"))
       /\ call' = Called("addNode", p, NodeValue(newNode), NullText,
                         Refused(tree, "Invalid path or node"))
       /\ UNCHANGED <<history, redoStack>>
  ELSE LET outcome == TryProduce(tree, AddRecipe(tree, p, newNode),
                                 "Error adding node: ")
       IN /\ addToHistory(outcome.base)
          /\ SetTree(outcome)
          /\ call' = Called("addNode", p, NodeValue(newNode), NullText,
                            outcome)

\* A recipe that pushes a node to the root's children (lines 482-485 and
\* 517-520).
PushToRoot(draft, newNode) ==
  Returned([draft EXCEPT !.children = Append(@, newNode)], TRUE)

\* addTextToRoot(content), lines 473-496.
addTextToRoot(content) ==
  LET outcome == TryProduce(tree, PushToRoot(tree, TextNode(content)),
                            "Error adding text to root: ")
  IN /\ addToHistory(outcome.base)
     /\ SetTree(outcome)
     /\ call' = Called("addTextToRoot", <<>>,
                       NodeValue(TextNode(content)), NullText, outcome)

\* Lines 501-510: the Choice made of the option texts.
NewChoice(options) ==
  ChoiceNode([k \in 1..Len(options) |-> OptionNode(options[k], <<>>)])

\* addChoiceToRoot(options), lines 499-531.
addChoiceToRoot(options) ==
  LET outcome == TryProduce(tree, PushToRoot(tree, NewChoice(options)),
                            "Error adding choice to root: ")
  IN /\ addToHistory(outcome.base)
     /\ SetTree(outcome)
     /\ call' = Called("addChoiceToRoot", <<>>,
                       NodeValue(NewChoice(options)), NullText, outcome)

\* setSpintaxString(spintax), lines 180-197.
setSpintaxString(spintax) ==
  /\ addToHistory(tree)
  /\ SetTree(Replaced(tree, parseSpintax(spintax)))
  /\ call' = Called("setSpintaxString", <<>>, NodeValue(Null), spintax,
                    Replaced(tree, parseSpintax(spintax)))

\* Used to refute that clearing is recorded: the stacks are left alone.
clearAllUnrecorded ==
  /\ UNCHANGED <<history, redoStack>>
  /\ SetTree(Replaced(tree, [tree EXCEPT !.children = <<>>]))
  /\ call' = Called("clearAll", <<>>, NodeValue(Null), NullText,
                    Replaced(tree, [tree EXCEPT !.children = <<>>]))

\* clearAll(), lines 558-568.
clearAll ==
  /\ addToHistory(tree)
  /\ SetTree(Replaced(tree, [tree EXCEPT !.children = <<>>]))
  /\ call' = Called("clearAll", <<>>, NodeValue(Null), NullText,
                    Replaced(tree, [tree EXCEPT !.children = <<>>]))

\* setTree(snapshot) in undo and redo.  The effect runs when the snapshot
\* is another object than the current tree: it is one when its value
\* differs, and may or may not be one when its value is the same.
Restored(snapshot, sameObject) ==
  [tree |-> snapshot, base |-> tree, changed |-> ~sameObject,
   reported |-> FALSE, error |-> NoError, escaped |-> FALSE]

MaybeSame(snapshot) == IF snapshot = tree THEN BOOLEAN ELSE {FALSE}

\* A handler that returns before it calls anything.
Returns(op, p) ==
  /\ call' = Called(op, p, NodeValue(Null), NullText,
                    Restored(tree, TRUE))
  /\ UNCHANGED <<text, tree, spintaxString, reparsed, variationCount,
                 randomVariant, path, found, pc, history, redoStack, error>>

\* Used to refute the transition of undo: the current tree is not kept for
\* redo.
undoForgetting ==
  IF Len(history) = 0 THEN Returns("undo", <<>>)
  ELSE /\ redoStack' = redoStack
       /\ history' = Tail(history)
       /\ \E sameObject \in MaybeSame(Head(history)) :
            /\ SetTree(Restored(Head(history), sameObject))
            /\ call' = Called("undo", <<>>, NodeValue(Null), NullText,
                              Restored(Head(history), sameObject))

\* undo(), lines 534-543.
undo ==
  IF Len(history) = 0 THEN Returns("undo", <<>>)
  ELSE /\ redoStack' = <<tree>> \o redoStack
       /\ history' = Tail(history)
       /\ \E sameObject \in MaybeSame(Head(history)) :
            /\ SetTree(Restored(Head(history), sameObject))
            /\ call' = Called("undo", <<>>, NodeValue(Null), NullText,
                              Restored(Head(history), sameObject))

\* Used to refute the round trip: the tree left by redo is not kept for
\* undo.
redoForgetting ==
  IF Len(redoStack) = 0 THEN Returns("redo", <<>>)
  ELSE /\ history' = history
       /\ redoStack' = Tail(redoStack)
       /\ \E sameObject \in MaybeSame(Head(redoStack)) :
            /\ SetTree(Restored(Head(redoStack), sameObject))
            /\ call' = Called("redo", <<>>, NodeValue(Null), NullText,
                              Restored(Head(redoStack), sameObject))

\* redo(), lines 546-555.
redo ==
  IF Len(redoStack) = 0 THEN Returns("redo", <<>>)
  ELSE /\ history' = <<tree>> \o history
       /\ redoStack' = Tail(redoStack)
       /\ \E sameObject \in MaybeSame(Head(redoStack)) :
            /\ SetTree(Restored(Head(redoStack), sameObject))
            /\ call' = Called("redo", <<>>, NodeValue(Null), NullText,
                              Restored(Head(redoStack), sameObject))

\* handleMoveUp of the node editor shown for the node at p (lines
\* 371-428); the last element of p is a number.
handleMoveUp(p) ==
  IF Len(p) < 2 THEN Returns("handleMoveUp", p)
  ELSE IF LastIndex(p).n <= 0 THEN Returns("handleMoveUp", p)
  ELSE UpdateNodeFor("handleMoveUp", p, ParentPath(p),
                     Updater("moveUp", LastIndex(p).n))

\* handleMoveDown of the node editor shown for the node at p (lines
\* 430-480); the last element of p is a number.
handleMoveDown(p) ==
  IF Len(p) < 2 THEN Returns("handleMoveDown", p)
  ELSE UpdateNodeFor("handleMoveDown", p, ParentPath(p),
                     Updater("moveDown", LastIndex(p).n))

\* The state of the hook once it is mounted with initialSpintax: the
\* initializers of lines 101-140 and the first run of the effect.
Mounted(initialSpintax) ==
  IF initialSpintax.isString /\ initialSpintax.chars # <<>>
  THEN parseSpintax(initialSpintax)
  ELSE RootNode(<<>>)

InitWith(texts) ==
  /\ text \in texts
  /\ tree = Mounted(text)
  /\ spintaxString = generateSpintax(Mounted(text))
  /\ reparsed = Null
  /\ variationCount = calculateVariations(Mounted(text))
  /\ randomVariant = <<>>
  /\ path = <<>>
  /\ found = Null
  /\ pc = "mounted"
  /\ history = <<>>
  /\ redoStack = <<>>
  /\ error = NoError
  /\ call = NoCall
  /\ calls = 0
  /\ trip = NoTrip

InitEdit == InitWith({Str(s) : s \in EditTexts})

InitHook == InitWith({Str(s) : s \in HookTexts} \cup {NullText})

InitHistory == InitWith({NullText})

\* The calls of one edit, made in the state the hook is mounted in.
OneCall == calls = 0 /\ calls' = 1 /\ UNCHANGED trip

EditUpdate ==
  /\ OneCall
  /\ \E p \in EditPaths, u \in EditUpdaters : updateNode(p, u)

EditDelete ==
  /\ OneCall
  /\ \E p \in EditPaths : deleteNode(p)

EditAdd ==
  /\ OneCall
  /\ \E p \in EditPaths, n \in EditNodes \cup {Null} : addNode(p, n)

EditMoveUp ==
  /\ OneCall
  /\ \E p \in WellFormedPaths : handleMoveUp(p)

EditMoveDown ==
  /\ OneCall
  /\ \E p \in WellFormedPaths : handleMoveDown(p)

NextEdit ==
  EditUpdate \/ EditDelete \/ EditAdd \/ EditMoveUp \/ EditMoveDown

\* The calls of a sequence: at most MaxCalls calls that push history, and
\* any number of undo and redo.
Counted == calls < MaxCalls /\ calls' = calls + 1 /\ UNCHANGED trip

HookUpdate ==
  /\ Counted
  /\ \E p \in {<<>>, Hop(0)}, u \in HookUpdaters : updateNode(p, u)

HookDelete ==
  /\ Counted
  /\ \E p \in {<<>>, Hop(0)} : deleteNode(p)

HookAdd ==
  /\ Counted
  /\ \E p \in {<<>>, Hop(0), Hop(0) \o Hop(0)}, n \in HookNodes :
       addNode(p, n)

HookMoveUp ==
  /\ Counted
  /\ \E p \in {Hop(0), Hop(1), Hop(0) \o Hop(1)} : handleMoveUp(p)

HookMoveDown ==
  /\ Counted
  /\ \E p \in {Hop(0), Hop(0) \o Hop(1)} : handleMoveDown(p)

HookSetSpintaxString ==
  /\ Counted
  /\ setSpintaxString(Str(ExLetters))

HookAddText ==
  /\ Counted
  /\ addTextToRoot(NewText)

HookAddChoice ==
  /\ Counted
  /\ addChoiceToRoot(<<<<"A">>, <<"B">>>>)

HookClearAll ==
  /\ Counted
  /\ clearAll

Undo ==
  /\ undo
  /\ UNCHANGED <<calls, trip>>

Redo ==
  /\ redo
  /\ UNCHANGED <<calls, trip>>

NextHook ==
  \/ HookUpdate \/ HookDelete \/ HookAdd \/ HookMoveUp \/ HookMoveDown
  \/ HookSetSpintaxString \/ HookAddText \/ HookAddChoice \/ HookClearAll
  \/ Undo \/ Redo

\* A long run of edits: texts pushed to the root until it has MaxTexts
\* children.
PushText ==
  /\ Len(tree.children) < MaxTexts
  /\ addTextToRoot(NewText)
  /\ UNCHANGED <<calls, trip>>

NextHistory == PushText \/ Undo \/ Redo

\* Single edits of parsed trees.
SpecEdit == InitEdit /\ [][NextEdit]_vars

\* Sequences of calls of the hook.
SpecHook == InitHook /\ [][NextHook]_vars

\* More edits than the history holds, undone and redone.
SpecHistory == InitHistory /\ [][NextHistory]_vars

\* The history at its capacity: texts pushed to the root until it has
\* MaxTexts children, the full tree then cleared at most MaxCalls times,
\* and undo and redo at any time.
CapacityPushText ==
  /\ calls = 0
  /\ Len(tree.children) < MaxTexts
  /\ addTextToRoot(<<"x">>)
  /\ UNCHANGED <<calls, trip>>

CapacityClearAll ==
  /\ Len(tree.children) = MaxTexts
  /\ Counted
  /\ clearAll

NextCapacity == CapacityPushText \/ CapacityClearAll \/ Undo \/ Redo

SpecCapacity == InitHistory /\ [][NextCapacity]_vars

\* Round trips: successful mutations in a row, then as many undos, then
\* as many redos.  A call that leaves the tree alone ends the row.  The
\* short rows are made of at most MaxCalls calls of any kind, the long
\* rows of texts pushed to the root.
Mutated ==
  trip' = IF call'.changed
          THEN [mutations |-> trip.mutations + 1, undos |-> 0, redos |-> 0,
                first |-> IF trip.mutations = 0 THEN tree ELSE trip.first,
                last |-> [tree |-> tree', history |-> history',
                          redoStack |-> redoStack']]
          ELSE NoTrip

TripCall ==
  /\ trip.undos = 0
  /\ trip.mutations <= calls
  /\ calls < MaxCalls
  /\ calls' = calls + 1

TripUpdate ==
  /\ TripCall
  /\ \E p \in {<<>>, Hop(0)}, u \in HookUpdaters : updateNode(p, u)
  /\ Mutated

TripDelete ==
  /\ TripCall
  /\ \E p \in {<<>>, Hop(0)} : deleteNode(p)
  /\ Mutated

TripAdd ==
  /\ TripCall
  /\ \E p \in {<<>>, Hop(0)}, n \in HookNodes : addNode(p, n)
  /\ Mutated

TripMoveDown ==
  /\ TripCall
  /\ \E p \in {Hop(0)} : handleMoveDown(p)
  /\ Mutated

TripSetSpintaxString ==
  /\ TripCall
  /\ setSpintaxString(Str(ExLetters))
  /\ Mutated

TripAddChoice ==
  /\ TripCall
  /\ addChoiceToRoot(<<<<"A">>, <<"B">>>>)
  /\ Mutated

TripClearAll ==
  /\ TripCall
  /\ clearAll
  /\ Mutated

TripPushText ==
  /\ trip.undos = 0
  /\ calls = 0
  /\ Len(tree.children) < MaxTexts
  /\ addTextToRoot(NewText)
  /\ Mutated
  /\ UNCHANGED calls

TripUndo ==
  /\ trip.mutations > 0
  /\ trip.redos = 0
  /\ trip.undos < trip.mutations
  /\ undo
  /\ trip' = [trip EXCEPT !.undos = @ + 1]
  /\ UNCHANGED calls

TripRedo ==
  /\ trip.mutations > 0
  /\ trip.undos = trip.mutations
  /\ trip.redos < trip.mutations
  /\ redo
  /\ trip' = [trip EXCEPT !.redos = @ + 1]
  /\ UNCHANGED calls

NextRoundTrip ==
  \/ TripUpdate \/ TripDelete \/ TripAdd \/ TripMoveDown
  \/ TripSetSpintaxString \/ TripAddChoice \/ TripClearAll
  \/ TripPushText \/ TripUndo \/ TripRedo

SpecRoundTrip == InitHook /\ [][NextRoundTrip]_vars

(***************************************************************************)
(* The hook without history (the other useSpintaxTree, unnamed/part_007).  *)
(* Its handlers set the tree and then call updateStateFromTree with the    *)
(* tree of the render the handler was made in.                             *)
(***************************************************************************)

\* Lines 188-231: the update of a child of parentNode.
PlainUpdateChild(draft, p, updated, parentNode) ==
  IF updated.node = Null THEN Returned(draft, FALSE)
  ELSE IF parentNode = Null THEN Thrown("Parent node not found")
  ELSE IF parentNode.type \notin {"root", "choice", "option"}
  THEN Thrown("Parent node of type " \o parentNode.type
                \o " cannot have children")
  ELSE IF IndexInRange(parentNode.children, LastIndex(p))
  THEN Returned(
         WithChildrenAt(draft, ParentPath(p),
           [parentNode.children EXCEPT ![LastIndex(p).n + 1] =
                                         updated.node]),
         ~updated.same)
  ELSE Thrown("Invalid path or index out of bounds")

\* The recipe of updateNode (lines 166-231).
PlainUpdateRecipe(draft, p, newNodeOrFn) ==
  IF Len(p) = 0 THEN UpdateRoot(draft, CallUpdater(newNodeOrFn, draft))
  ELSE PlainUpdateChild(draft, p,
         CallUpdater(newNodeOrFn, getNodeByPathInDraft(draft, p)),
         getNodeByPathInDraft(draft, ParentPath(p)))

\* The recipe of deleteNode (lines 254-281).
PlainDeleteRecipe(draft, p, parentNode) ==
  IF parentNode = Null THEN Thrown("Parent node not found")
  ELSE IF parentNode.type \notin {"root", "choice", "option"}
  THEN Thrown("Parent node of type " \o parentNode.type
                \o " cannot have children")
  ELSE IF IndexInRange(parentNode.children, LastIndex(p))
  THEN Returned(
         WithChildrenAt(draft, ParentPath(p),
           SpliceOut(parentNode.children, LastIndex(p).n)),
         TRUE)
  ELSE Thrown("Invalid path or index out of bounds")

\* The recipe of addNode (lines 307-334).
PlainAddRecipe(draft, p, newNode, parentNode) ==
  IF parentNode = Null THEN Thrown("Parent node not found")
  ELSE IF parentNode.type \notin {"root", "choice", "option"}
  THEN Thrown("Parent node of type " \o parentNode.type
                \o " cannot have children")
  ELSE Returned(
         WithChildrenAt(draft, ParentPath(p),
           SpliceIn(parentNode.children,
                    ValidIndex(LastIndex(p), Len(parentNode.children)),
                    newNode)),
         TRUE)

\* updateStateFromTree(newTree), lines 120-136.
updateStateFromTree(newTree) ==
  /\ spintaxString' = generateSpintax(newTree)
  /\ variationCount' = calculateVariations(newTree)

\* setTree(updater) followed by updateStateFromTree(tree), where tree is
\* the tree of the render the handler was made in, the one the updater is
\* given (lines 164, 239).  The updater runs inside setTree or in the next
\* render, so its setError comes before or after the setError(null) of
\* updateStateFromTree.
PlainSetTree(outcome) ==
  /\ tree' = outcome.tree
  /\ updateStateFromTree(tree)
  /\ error' \in IF outcome.reported THEN {NoError, outcome.error}
                ELSE {NoError}
  /\ UNCHANGED <<text, reparsed, randomVariant, path, found, pc, history,
                 redoStack>>

\* A handler that returns after setError(message).
PlainRefused(op, p, newNode, message) ==
  /\ error' = ErrorText(message)
  /\ call' = Called(op, p, NodeValue(newNode), NullText,
                    Refused(tree, message))
  /\ UNCHANGED <<text, tree, spintaxString, reparsed, variationCount,
                 randomVariant, path, found, pc, history, redoStack>>

\* updateNode(path, newNodeOrFn), lines 157-242.
PlainUpdateNode(p, newNodeOrFn) ==
  /\ PlainSetTree(TryProduce(tree, PlainUpdateRecipe(tree, p, newNodeOrFn),
                             "Error updating node: "))
  /\ call' = Called("updateNode", p, newNodeOrFn, NullText,
                    TryProduce(tree, PlainUpdateRecipe(tree, p, newNodeOrFn),
                               "Error updating node: "))

\* deleteNode(path), lines 245-295.
PlainDeleteNode(p) ==
  IF Len(p) < 2
  THEN PlainRefused("deleteNode", p, Null, "Cannot delete root node")
  ELSE /\ PlainSetTree(
            TryProduce(tree,
              PlainDeleteRecipe(tree, p,
                getNodeByPathInDraft(tree, ParentPath(p))),
              "Error deleting node: "))
       /\ call' = Called("deleteNode", p, NodeValue(Null), NullText,
            TryProduce(tree,
              PlainDeleteRecipe(tree, p,
                getNodeByPathInDraft(tree, ParentPath(p))),
              "Error deleting node: "))

\* addNode(path, newNode), lines 298-348.
PlainAddNode(p, newNode) ==
  IF Len(p) < 2 \/ newNode = Null
  THEN PlainRefused("addNode", p, newNode, "Invalid path or node")
  ELSE /\ PlainSetTree(
            TryProduce(tree,
              PlainAddRecipe(tree, p, newNode,
                getNodeByPathInDraft(tree, ParentPath(p))),
              "Error adding node: "))
       /\ call' = Called("addNode", p, NodeValue(newNode), NullText,
            TryProduce(tree,
              PlainAddRecipe(tree, p, newNode,
                getNodeByPathInDraft(tree, ParentPath(p))),
              "Error adding node: "))

\* addTextToRoot(content), lines 363-385.
PlainAddTextToRoot(content) ==
  /\ PlainSetTree(TryProduce(tree, PushToRoot(tree, TextNode(content)),
                             "Error adding text to root: "))
  /\ call' = Called("addTextToRoot", <<>>, NodeValue(TextNode(content)),
                    NullText,
                    TryProduce(tree, PushToRoot(tree, TextNode(content)),
                               "Error adding text to root: "))

\* addChoiceToRoot(options), lines 389-420.
PlainAddChoiceToRoot(options) ==
  /\ PlainSetTree(TryProduce(tree, PushToRoot(tree, NewChoice(options)),
                             "Error adding choice to root: "))
  /\ call' = Called("addChoiceToRoot", <<>>, NodeValue(NewChoice(options)),
                    NullText,
                    TryProduce(tree, PushToRoot(tree, NewChoice(options)),
                               "Error adding choice to root: "))

\* setSpintaxString(spintax), lines 139-154: the string is kept as given.
PlainSetSpintaxString(spintax) ==
  /\ tree' = parseSpintax(spintax)
  /\ spintaxString' = spintax.chars
  /\ variationCount' = calculateVariations(parseSpintax(spintax))
  /\ error' = NoError
  /\ call' = Called("setSpintaxString", <<>>, NodeValue(Null), spintax,
                    Replaced(tree, parseSpintax(spintax)))
  /\ UNCHANGED <<text, reparsed, randomVariant, path, found, pc, history,
                 redoStack>>

\* The state of the hook once it is mounted: the initializers of lines
\* 82-115, where the string is the one given when there is one.
InitPlain ==
  /\ text \in {Str(s) : s \in HookTexts} \cup {NullText}
  /\ tree = Mounted(text)
  /\ spintaxString = IF text.isString /\ text.chars # <<>> THEN text.chars
                     ELSE generateSpintax(Mounted(text))
  /\ reparsed = Null
  /\ variationCount = calculateVariations(Mounted(text))
  /\ randomVariant = <<>>
  /\ path = <<>>
  /\ found = Null
  /\ pc = "mounted"
  /\ HookUnused

PlainUpdate ==
  /\ Counted
  /\ \E p \in {<<>>, Hop(0), Hop(0) \o Hop(0)}, u \in HookUpdaters :
       PlainUpdateNode(p, u)

PlainDelete ==
  /\ Counted
  /\ \E p \in {<<>>, Hop(0), Hop(0) \o Hop(0)} : PlainDeleteNode(p)

PlainAdd ==
  /\ Counted
  /\ \E p \in {<<>>, Hop(0), Hop(0) \o Hop(0)}, n \in HookNodes :
       PlainAddNode(p, n)

PlainAddText ==
  /\ Counted
  /\ PlainAddTextToRoot(NewText)

PlainAddChoice ==
  /\ Counted
  /\ PlainAddChoiceToRoot(<<<<"A">>, <<"B">>>>)

PlainSetString ==
  /\ Counted
  /\ PlainSetSpintaxString(Str(ExLetters))

NextPlain ==
  \/ PlainUpdate \/ PlainDelete \/ PlainAdd \/ PlainAddText
  \/ PlainAddChoice \/ PlainSetString

\* Sequences of calls of the hook without history.
SpecPlain == InitPlain /\ [][NextPlain]_vars

(***************************************************************************)
(* Definitions the properties are stated with.                             *)
(***************************************************************************)

\* A node and everything below it.
RECURSIVE Subnodes(_)
Subnodes(node) ==
  {node} \cup UNION {Subnodes(ChildrenOf(node)[k]) :
                       k \in 1..Len(ChildrenOf(node))}

\* The brace depth after each character of s, starting from depth 0.
RECURSIVE DepthAfter(_, _)
DepthAfter(s, n) ==
  IF n = 0 THEN 0
  ELSE DepthAfter(s, n - 1)
         + (IF s[n] = "{" THEN 1 ELSE IF s[n] = "}" THEN -1 ELSE 0)

\* s opens a choice with its first character and the end of s is reached
\* before that brace is closed.
UnterminatedChoice(s) ==
  /\ Len(s) >= 2
  /\ s[1] = "{"
  /\ \A n \in 1..Len(s) : DepthAfter(s, n) >= 1

\* The trees obtained from a node by replacing every Choice by exactly one
\* of its Options (a Choice without Options by the empty text).
RECURSIVE Collapsed(_), CollapsedList(_)
Collapsed(node) ==
  IF node = Null \/ node.type = "text" THEN {node}
  ELSE IF node.type = "choice"
  THEN IF Len(node.children) = 0 THEN {TextNode(<<>>)}
       ELSE UNION {Collapsed(node.children[k]) :
                     k \in 1..Len(node.children)}
  ELSE {[node EXCEPT !.children = cs] : cs \in CollapsedList(node.children)}

CollapsedList(children) ==
  IF children = <<>> THEN {<<>>}
  ELSE {<<h>> \o t : h \in Collapsed(Head(children)),
                     t \in CollapsedList(Tail(children))}

\* The variant set of a node: the serializations of its collapsed trees.
VariantSet(node) == {generateSpintax(c) : c \in Collapsed(node)}

\* The selections of a node: the ways of picking one Option at every Choice
\* that is met, each written as the sequence of the picked positions.
RECURSIVE Selections(_), SelectionsOfList(_)
Selections(node) ==
  IF node = Null \/ node.type = "text" THEN {<<>>}
  ELSE IF node.type = "choice"
  THEN IF Len(node.children) = 0 THEN {<<>>}
       ELSE UNION {{<<k>> \o sel : sel \in Selections(node.children[k])} :
                     k \in 1..Len(node.children)}
  ELSE SelectionsOfList(node.children)

SelectionsOfList(children) ==
  IF children = <<>> THEN {<<>>}
  ELSE {h \o t : h \in Selections(Head(children)),
                 t \in SelectionsOfList(Tail(children))}

\* Sum and product of a sequence of counts; a value beyond the integers of
\* the model is Infinity.
Plus(a, b) == IF a > Infinity - b THEN Infinity ELSE a + b

RECURSIVE SumOf(_)
SumOf(counts) ==
  IF counts = <<>> THEN 0 ELSE Plus(Head(counts), SumOf(Tail(counts)))

RECURSIVE ProductOf(_)
ProductOf(counts) ==
  IF counts = <<>> THEN 1 ELSE Times(Head(counts), ProductOf(Tail(counts)))

\* The exact count of a node, without a ceiling.
RECURSIVE ExactCount(_)
ExactCount(node) ==
  LET children == ChildrenOf(node)
      counts == [k \in 1..Len(children) |-> ExactCount(children[k])]
  IN IF node = Null \/ node.type = "text" THEN 1
     ELSE IF node.type = "choice"
     THEN IF Len(children) = 0 THEN 1 ELSE SumOf(counts)
     ELSE ProductOf(counts)

\* The counts calculateVariations gives for the children of a node.
ChildCounts(node) ==
  [k \in 1..Len(ChildrenOf(node)) |->
     calculateVariations(ChildrenOf(node)[k])]

\* The serializations generateSpintax gives for the children of a node.
ChildTexts(node) ==
  [k \in 1..Len(ChildrenOf(node)) |-> generateSpintax(ChildrenOf(node)[k])]

RECURSIVE Concat(_)
Concat(parts) == IF parts = <<>> THEN <<>> ELSE Head(parts) \o Concat(Tail(parts))

\* s is the strings of parts with one '|' between neighbours.
RECURSIVE BarSeparated(_, _)
BarSeparated(s, parts) ==
  IF Len(parts) = 1 THEN s = parts[1]
  ELSE /\ Len(s) > Len(parts[1])
       /\ SubSeq(s, 1, Len(parts[1])) = parts[1]
       /\ s[Len(parts[1]) + 1] = "|"
       /\ BarSeparated(SubSeq(s, Len(parts[1]) + 2, Len(s)), Tail(parts))

\* Every hop of p names the children field of a node that has a children
\* list, with an index inside the list.
RECURSIVE EveryHopValid(_, _)
EveryHopValid(node, p) ==
  \/ p = <<>>
  \/ /\ Len(p) >= 2
     /\ p[1] = PathString("children")
     /\ "children" \in DOMAIN node
     /\ p[2].kind = "number"
     /\ p[2].n \in 0..(Len(node.children) - 1)
     /\ EveryHopValid(node.children[p[2].n + 1], SubSeq(p, 3, Len(p)))

\* The node a valid path addresses.
RECURSIVE Addressed(_, _)
Addressed(node, p) ==
  IF p = <<>> THEN node
  ELSE Addressed(node.children[p[2].n + 1], SubSeq(p, 3, Len(p)))

(***************************************************************************)
(* C1.  Round-trip stability: for every input string s, with               *)
(* T = parseSpintax(s), parseSpintax(generateSpintax(T)) is structurally   *)
(* equal to T: same node kinds, same content strings and same child order  *)
(* at every position.                                                      *)
(***************************************************************************)
RoundTripStable == pc = "reparsed" => reparsed = tree

\* A string with choices whose serialization is not the string itself has
\* gone round.
RoundTripWitness ==
  /\ pc = "reparsed"
  /\ text.chars # spintaxString
  /\ NumChoices(tree) >= 2
  /\ reparsed = tree

(***************************************************************************)
(* C2.  parseSpintax is total and terminating: for every input (null, the  *)
(* empty string, any string with unbalanced, stray or nested braces and    *)
(* pipes) every loop iteration of parseSpintax, parseChoice and            *)
(* parseOptionContent advances its scan index, the call returns a Root     *)
(* node, and the empty string and null give a Root without children.       *)
(***************************************************************************)
ParseTotal ==
  /\ pc # "hung"
  /\ pc # "input" =>
       /\ tree.type = "root"
       /\ (~text.isString \/ text.chars = <<>>) => tree = RootNode(<<>>)

\* A string with a stray '}' and an unterminated '{' has been parsed.
ParseTotalWitness ==
  /\ pc = "ready"
  /\ text = Str(ExStray)
  /\ tree.type = "root"
  /\ Len(tree.children) > 1

(***************************************************************************)
(* C3.  Unterminated-choice recovery: when the end of input is reached     *)
(* before the matching depth-0 '}', the parser still emits a Choice node   *)
(* with the Options captured so far; parse("{a|b") is                      *)
(* Root[Choice[Option "a", Option "b"]].                                   *)
(***************************************************************************)
UnterminatedChoiceRecovered ==
  (pc = "ready" /\ text.isString /\ UnterminatedChoice(Trim(text.chars))) =>
    /\ Len(tree.children) = 1
    /\ tree.children[1].type = "choice"
    /\ text = Str(ExUnterminated) =>
         tree = RootNode(<<ChoiceNode(<<OptionNode(<<"a">>, <<>>),
                                        OptionNode(<<"b">>, <<>>)>>)>>)

Multiplicative ==
  pc = "counted" =>
    \A n \in Subnodes(tree) \ {Null} :
      LET c == calculateVariations(n) IN
      c <= MAX_VARIATIONS =>
        /\ n.type = "text" => c = 1
        /\ n.type \in {"option", "root"} => c = ProductOf(ChildCounts(n))
        /\ n.type = "choice" =>
             c = IF Len(n.children) = 0 THEN 1 ELSE SumOf(ChildCounts(n))

\* A Root of two nested Choices and a Text: a product of sums of products.
MultiplicativeWitness ==
  /\ pc = "counted"
  /\ tree = RootNode(<<Nested(MaxDepth), TextNode(<<" ">>),
                       Nested(MaxDepth)>>)
  /\ variationCount = (MaxDepth + 2) * (MaxDepth + 2)

(***************************************************************************)
(* C6.  For every tree T produced by parseSpintax, calculateVariations(T)  *)
(* is an integer >= 1 or the overflow sentinel, never 0 and never          *)
(* negative, and it is 1 whenever T contains no Choice node.               *)
(***************************************************************************)
CountPositive ==
  pc = "counted" =>
    /\ variationCount >= 1
    /\ variationCount <= MAX_VARIATIONS \/ variationCount = Infinity
    /\ NumChoices(tree) = 0 => variationCount = 1

\* The count of a parsed text without any choice.
CountPositiveWitness ==
  /\ pc = "counted"
  /\ text.isString
  /\ Len(tree.children) >= 2
  /\ NumChoices(tree) = 0
  /\ variationCount = 1

(***************************************************************************)
(* C7.  Overflow protection: calculateVariations returns the overflow      *)
(* sentinel exactly when the exact count of the tree exceeds 1,000,000     *)
(* and the exact count otherwise (1,000,000 itself is returned as a        *)
(* number); once a subtree reports overflow, every ancestor does.  Twenty  *)
(* binary Choices whose exact count is 2^20 give overflow.                 *)
(***************************************************************************)
OverflowExact ==
  pc = "counted" =>
    /\ variationCount = IF ExactCount(tree) > MAX_VARIATIONS
                        THEN Infinity ELSE ExactCount(tree)
    /\ (\E n \in Subnodes(tree) : calculateVariations(n) = Infinity) =>
         variationCount = Infinity
    /\ tree = Siblings(20, 2) =>
         ExactCount(tree) = 1048576 /\ variationCount = Infinity

\* The count that is exactly the ceiling is returned as a number.
OverflowExactWitness ==
  /\ pc = "counted"
  /\ ExactCount(tree) = MAX_VARIATIONS
  /\ variationCount = MAX_VARIATIONS

(***************************************************************************)
(* C8.  Every string generateRandomVariant(T) can return, for any sequence *)
(* of random indices, is in the variant set of T: the rendering of T with  *)
(* each Choice replaced by exactly one of its Options, a Choice without    *)
(* Options rendering as the empty string.  For parse("{A|B|C}") every      *)
(* sample is "A", "B" or "C".                                              *)
(***************************************************************************)
VariantInVariantSet ==
  pc = "sampled" =>
    /\ randomVariant \in VariantSet(tree)
    /\ tree = parseSpintax(Str(ExLetters)) =>
         randomVariant \in {<<"A">>, <<"B">>, <<"C">>}

\* The last Option of "{A|B|C}" has been sampled.
VariantInVariantSetWitness ==
  /\ pc = "sampled"
  /\ tree = parseSpintax(Str(ExLetters))
  /\ randomVariant = <<"C">>

(***************************************************************************)
(* C9.  generateSpintax is total: null gives ""; a Text its content; an    *)
(* Option its content followed by the serializations of its children in    *)
(* order; a Root the concatenation of its children's serializations; a     *)
(* Choice with Options "{", the Options' serializations joined by "|",     *)
(* and "}"; a Choice without children "{}".                                *)
(***************************************************************************)
SerializerRules ==
  pc = "generated" =>
    /\ spintaxString = generateSpintax(tree)
    /\ tree = Null => spintaxString = <<>>
    /\ \A n \in Subnodes(tree) \ {Null} :
         LET out == generateSpintax(n) IN
         /\ n.type = "text" => out = n.content
         /\ n.type = "option" => out = n.content \o Concat(ChildTexts(n))
         /\ n.type = "root" => out = Concat(ChildTexts(n))
         /\ (n.type = "choice" /\ Len(n.children) = 0) => out = <<"{", "}">>
         /\ (n.type = "choice" /\ Len(n.children) >= 1) =>
              /\ Len(out) >= 2
              /\ Head(out) = "{"
              /\ out[Len(out)] = "}"
              /\ BarSeparated(SubSeq(out, 2, Len(out) - 1), ChildTexts(n))

\* A Choice of a single Option keeps its braces.
SerializerRulesWitness ==
  /\ pc = "generated"
  /\ tree = Siblings(2, 1)
  /\ spintaxString = <<"{", "a", "}", "{", "a", "}">>

(***************************************************************************)
(* C10.  Path resolution validates every hop: getNodeByPathInDraft gives   *)
(* the root for the empty path, the addressed node when every hop names    *)
(* the children field of a node with a children list and an index within   *)
(* [0, length-1], and null for any other path.                             *)
(***************************************************************************)
PathResolved ==
  pc = "resolved" =>
    /\ path = <<>> => found = tree
    /\ EveryHopValid(tree, path) => found = Addressed(tree, path)
    /\ ~EveryHopValid(tree, path) => found = Null

\* Two valid hops resolved to an Option inside a Choice.
PathResolvedWitness ==
  /\ pc = "resolved"
  /\ Len(path) = 4
  /\ EveryHopValid(tree, path)
  /\ found.type = "option"

\* A path that leaves the tree only at its last element gives null.
PathRejectedWitness ==
  /\ pc = "resolved"
  /\ Len(path) = 4
  /\ EveryHopValid(tree, SubSeq(path, 1, 2))
  /\ ~EveryHopValid(tree, path)
  /\ found = Null

(***************************************************************************)
(* Definitions the properties of the edits and the history are stated      *)
(* with.                                                                   *)
(***************************************************************************)
\* The handlers that edit at a path.
EditOps == {"updateNode", "deleteNode", "addNode"}

ReorderOps == {"handleMoveUp", "handleMoveDown"}

\* The handlers that call addToHistory when they are not refused at once.
MutatingOps ==
  EditOps \cup ReorderOps
    \cup {"setSpintaxString", "addTextToRoot", "addChoiceToRoot", "clearAll"}

ParentResolves(node, p) ==
  /\ Len(p) >= 2
  /\ EveryHopValid(node, ParentPath(p))
  /\ ParentProperty(p) = PathString("children")
  /\ "children" \in DOMAIN Addressed(node, ParentPath(p))

\* The last call is an edit the engine has to reject: a Delete of the
\* root, an Update or Delete at a path that does not resolve to a node
\* (a parent that does not resolve or has no children list, an index out
\* of range), an Update of the root by a node that is no Root, an Insert
\* whose parent segment does not resolve.  An Update whose updater returns
\* null is aborted, not rejected.
IllegalEdit ==
  \/ /\ call.op = "deleteNode"
     /\ Len(call.path) < 2 \/ ~EveryHopValid(call.before.tree, call.path)
  \/ /\ call.op = "updateNode"
     /\ ~call.updater.isFunction
     /\ \/ call.path # <<>> /\ ~EveryHopValid(call.before.tree, call.path)
        \/ call.path = <<>> /\ call.updater.node.type # "root"
  \/ /\ call.op = "addNode"
     /\ ~ParentResolves(call.before.tree, call.path)

(***************************************************************************)
(* C12  Edit rejection: an edit with an unresolvable path, an index out of *)
(* range for Update or Delete, a parent that is not a Root, Choice or      *)
(* Option, a Delete whose path has length 0 or 1, or an Update of the      *)
(* empty path by a node that is no Root leaves the current tree as it      *)
(* was, sets the error state to a reason, and lets no exception leave the  *)
(* call.                                                                   *)
(***************************************************************************)
EditRejected ==
  IllegalEdit =>
    /\ tree = call.before.tree
    /\ ~error.isNull
    /\ error.message # ""
    /\ ~call.escaped

\* An Update at an index beyond the children of a parent that resolves.
EditRejectedWitness ==
  /\ call.op = "updateNode"
  /\ IllegalEdit
  /\ Len(call.path) = 4
  /\ EveryHopValid(call.before.tree, ParentPath(call.path))
  /\ LastIndex(call.path).n > 0
  /\ error = ErrorText("Error updating node: Invalid target location for node update: Index out of bounds")

\* A Delete of the root.
DeleteRootRejectedWitness ==
  /\ call.op = "deleteNode"
  /\ call.path = <<>>
  /\ error = ErrorText("Cannot delete root node")
  /\ tree = call.before.tree

\* What the children list of a node of the given type may hold.
LegalChild(parentType, childType) ==
  IF parentType = "choice" THEN childType = "option"
  ELSE childType \in {"text", "choice"}

(***************************************************************************)
(* C13  Insert fails, leaving the tree unchanged, when the addressed       *)
(* container cannot hold the new node's type: a Text, Choice or Root node  *)
(* is not inserted into the children of a Choice, nor an Option or Root    *)
(* node into the children of a Root or an Option.                          *)
(***************************************************************************)
InsertTypeChecked ==
  /\ call.op = "addNode"
  /\ ParentResolves(call.before.tree, call.path)
  /\ ~LegalChild(Addressed(call.before.tree, ParentPath(call.path)).type,
                 call.updater.node.type)
  => tree = call.before.tree

\* Every children list of the tree holds only what it may hold.
WellTyped(root) ==
  \A node \in Subnodes(root) :
    \A k \in 1..Len(ChildrenOf(node)) :
      LegalChild(node.type, node.children[k].type)

(***************************************************************************)
(* C14  Child-type invariant: from a parsed tree or the empty Root, after  *)
(* any sequence of updateNode, deleteNode, addNode, reorder, undo, redo    *)
(* and clearAll calls with arbitrary paths and nodes, the children of      *)
(* every Choice are Options and the children of every Root and Option are  *)
(* Text or Choice nodes.                                                   *)
(***************************************************************************)
ChildTypesKept == tree.type = "root" /\ WellTyped(tree)

\* list with item put before its element at 0-based position at, written
\* without splice.
InsertedAt(list, at, item) ==
  [k \in 1..(Len(list) + 1) |->
     IF k <= at THEN list[k]
     ELSE IF k = at + 1 THEN item
     ELSE list[k - 1]]

\* The index an Insert at target into a list of the given length goes to.
Clamped(target, length) ==
  IF target < 0 THEN 0 ELSE IF target > length THEN length ELSE target

(***************************************************************************)
(* C15  Insert clamps instead of failing: for a path whose parent resolves *)
(* to a Root, Choice or Option with n children and any integer target      *)
(* index k, addNode succeeds and places the new node at index              *)
(* max(0, min(k, n)); the list then has n + 1 elements, the earlier        *)
(* children in their earlier order.                                        *)
(***************************************************************************)
InsertClamps ==
  /\ call.op = "addNode"
  /\ call.updater.node # Null
  /\ ParentResolves(call.before.tree, call.path)
  /\ LastIndex(call.path).kind = "number"
  => /\ error.isNull
     /\ call.changed
     /\ EveryHopValid(tree, ParentPath(call.path))
     /\ Addressed(tree, ParentPath(call.path)).children =
          InsertedAt(
            Addressed(call.before.tree, ParentPath(call.path)).children,
            Clamped(LastIndex(call.path).n,
                    Len(Addressed(call.before.tree,
                                  ParentPath(call.path)).children)),
            call.updater.node)

\* An Insert at -1 into a list of two or more children.
InsertClampsWitness ==
  /\ call.op = "addNode"
  /\ call.updater.node # Null
  /\ ParentResolves(call.before.tree, call.path)
  /\ LastIndex(call.path) = PathNumber(-1)
  /\ Len(Addressed(call.before.tree, ParentPath(call.path)).children) >= 2
  /\ Addressed(tree, ParentPath(call.path)).children[1] = call.updater.node

\* An Insert beyond the end of a list of children.
InsertBeyondEndWitness ==
  /\ call.op = "addNode"
  /\ call.updater.node # Null
  /\ ParentResolves(call.before.tree, call.path)
  /\ LastIndex(call.path).kind = "number"
  /\ LastIndex(call.path).n >
       Len(Addressed(call.before.tree, ParentPath(call.path)).children)
  /\ Len(Addressed(call.before.tree, ParentPath(call.path)).children) >= 1
  /\ tree # call.before.tree

(***************************************************************************)
(* C16  After every successful mutating operation of the hook              *)
(* (setSpintaxString, updateNode, deleteNode, addNode, addTextToRoot,      *)
(* addChoiceToRoot, clearAll), the most recent entry of the undo stack is  *)
(* the tree as it was just before the operation, and the redo stack is     *)
(* empty.                                                                  *)
(***************************************************************************)
MutationRecorded ==
  /\ call.op \in {"setSpintaxString", "updateNode", "deleteNode", "addNode",
                  "addTextToRoot", "addChoiceToRoot", "clearAll"}
  /\ call.changed
  => /\ Len(history) > 0
     /\ history[1] = call.before.tree
     /\ redoStack = <<>>

\* A mutation made while there was something to redo.
MutationRecordedWitness ==
  /\ call.op \in {"updateNode", "deleteNode", "addNode"}
  /\ call.changed
  /\ tree # call.before.tree
  /\ Len(call.before.redoStack) > 0
  /\ redoStack = <<>>

(***************************************************************************)
(* C17  The history stacks change only on a successful mutation: after an  *)
(* edit that is rejected, an update whose updater returns null, or a       *)
(* reorder at the boundary that leaves the tree unchanged, undoStack and   *)
(* redoStack are exactly as they were before the call.                     *)
(***************************************************************************)
StacksKeptWithoutMutation ==
  /\ call.op \in MutatingOps
  /\ ~call.changed
  => /\ history = call.before.history
     /\ redoStack = call.before.redoStack

\* The root with n texts "new text", the trees of SpecHistory.
RootOfTexts(n) ==
  [type |-> "root", children |-> [i \in 1..n |-> TextNode(NewText)]]

(***************************************************************************)
(* C18  The undo stack never holds more than MAX_HISTORY_SIZE snapshots.   *)
(* A push onto a full stack drops exactly the oldest snapshot and keeps    *)
(* the others in their order, most recent first; so the stack always holds *)
(* the latest pre-mutation trees, in reverse order of the edits.           *)
(***************************************************************************)
HistoryBounded ==
  /\ Len(history) <= MAX_HISTORY_SIZE
  /\ call.op = "addTextToRoot" /\ Len(call.before.history) = MAX_HISTORY_SIZE
     => history = <<call.before.tree>>
                    \o SubSeq(call.before.history, 1, MAX_HISTORY_SIZE - 1)
  /\ \A i \in 1..Len(history) :
       history[i] = RootOfTexts(Len(tree.children) - i)

\* A text is pushed while the history is full: the oldest snapshot has gone.
HistoryBoundedWitness ==
  /\ call.op = "addTextToRoot"
  /\ Len(call.before.history) = MAX_HISTORY_SIZE
  /\ Len(history) = MAX_HISTORY_SIZE
  /\ history[MAX_HISTORY_SIZE] = call.before.history[MAX_HISTORY_SIZE - 1]
  /\ history[MAX_HISTORY_SIZE] # call.before.history[MAX_HISTORY_SIZE]

\* The tree and the two stacks are as they were before the last call.
NothingMoved ==
  /\ tree = call.before.tree
  /\ history = call.before.history
  /\ redoStack = call.before.redoStack

(***************************************************************************)
(* C19  undo with an empty undo stack, and redo with an empty redo stack,  *)
(* change nothing.  Otherwise undo pops the most recent undo snapshot,     *)
(* pushes the current tree onto the redo stack and makes the popped        *)
(* snapshot the current tree; redo does the same with the two stacks       *)
(* exchanged.                                                              *)
(***************************************************************************)
UndoRedoTransitions ==
  /\ call.op = "undo" =>
       IF call.before.history = <<>> THEN NothingMoved
       ELSE /\ tree = Head(call.before.history)
            /\ history = Tail(call.before.history)
            /\ redoStack = <<call.before.tree>> \o call.before.redoStack
  /\ call.op = "redo" =>
       IF call.before.redoStack = <<>> THEN NothingMoved
       ELSE /\ tree = Head(call.before.redoStack)
            /\ redoStack = Tail(call.before.redoStack)
            /\ history = <<call.before.tree>> \o call.before.history

\* An undo that moves the tree between two stacks that both hold snapshots.
UndoRedoTransitionsWitness ==
  /\ call.op = "undo"
  /\ Len(call.before.history) > 0
  /\ Len(call.before.redoStack) > 0
  /\ tree # call.before.tree

\* A redo with nothing to redo.
RedoEmptyWitness ==
  /\ call.op = "redo"
  /\ call.before.redoStack = <<>>
  /\ call.before.history # <<>>

(***************************************************************************)
(* C20  Undo and redo restore exact trees.  After n successful mutations   *)
(* in a row, n at most MAX_HISTORY_SIZE, n undos give the tree that was    *)
(* there before the first of them, and n redos after that give the tree    *)
(* that was there after the last of them, with the undo stack and the redo *)
(* stack as they were after the last mutation.                             *)
(***************************************************************************)
RoundTripRestores ==
  /\ trip.mutations > 0
  /\ trip.mutations <= MAX_HISTORY_SIZE
  /\ trip.undos = trip.mutations
  => /\ trip.redos = 0 => tree = trip.first
     /\ trip.redos = trip.mutations =>
          /\ tree = trip.last.tree
          /\ history = trip.last.history
          /\ redoStack = trip.last.redoStack

\* MAX_HISTORY_SIZE mutations have been undone and redone.
RoundTripRestoresWitness ==
  /\ trip.mutations = MAX_HISTORY_SIZE
  /\ trip.undos = trip.mutations
  /\ trip.redos = trip.mutations
  /\ trip.first # trip.last.tree

\* One mutation that is not a pushed text has been undone.
RoundTripOnceWitness ==
  /\ trip.mutations = 1
  /\ trip.undos = 1
  /\ trip.redos = 0
  /\ call.before.history[1] = trip.first
  /\ trip.last.tree.children # <<>>
  /\ trip.last.tree.children[1].type = "choice"
  /\ trip.first # trip.last.tree

\* The step is a call of clearAll.
ClearAllStep ==
  call'.op = "clearAll" =>
    /\ Len(history') > 0
    /\ history'[1] = tree
    /\ redoStack' = <<>>
    /\ tree' = RootNode(<<>>)

\* The step is an undo made right after a call of clearAll.
UndoAfterClearAllStep ==
  call.op = "clearAll" /\ call'.op = "undo" =>
    /\ tree' = call.before.tree
    /\ redoStack' = <<RootNode(<<>>)>>

(***************************************************************************)
(* C21  clearAll is undoable: it pushes the current tree onto the undo     *)
(* stack, empties the redo stack and sets the tree to a Root with no       *)
(* children; an undo made right after it restores the tree that was there  *)
(* before clearAll.                                                        *)
(***************************************************************************)
ClearAllUndoable == [][ClearAllStep /\ UndoAfterClearAllStep]_vars

\* clearAll has emptied a tree with children and a redo stack with
\* snapshots.
ClearAllUndoableWitness ==
  /\ call.op = "clearAll"
  /\ call.before.tree.children # <<>>
  /\ call.before.redoStack # <<>>
  /\ tree = RootNode(<<>>)

\* The cleared tree has been undone.
ClearAllUndoneWitness ==
  /\ call.op = "undo"
  /\ call.before.tree = RootNode(<<>>)
  /\ call.before.redoStack = <<>>
  /\ call.before.history # <<>>
  /\ tree.children # <<>>
  /\ redoStack = <<RootNode(<<>>)>>

\* The states in which tree holds the result of parseSpintax(text).
Parsed == pc \in {"ready", "generated", "reparsed", "counted", "sampled"}

\* Root[Text "Hello ", Choice[Option "world", Option "there"], Text "!"]
HelloTree ==
  RootNode(<<TextNode(<<"H", "e", "l", "l", "o", " ">>),
             ChoiceNode(<<OptionNode(<<"w", "o", "r", "l", "d">>, <<>>),
                          OptionNode(<<"t", "h", "e", "r", "e">>, <<>>)>>),
             TextNode(<<"!">>)>>)

(***************************************************************************)
(* C22  parseSpintax("Hello {world|there}!") is Root[Text "Hello ",        *)
(* Choice[Option "world", Option "there"], Text "!"], its variation count  *)
(* is 2, and its serialization is the input string.                        *)
(***************************************************************************)
HelloExample ==
  text = Str(ExHello) =>
    /\ Parsed => tree = HelloTree
    /\ pc = "counted" => variationCount = 2
    /\ pc \in {"generated", "reparsed"} => spintaxString = ExHello

\* The example has been parsed and serialized.
HelloExampleWitness ==
  /\ text = Str(ExHello)
  /\ pc = "generated"
  /\ Len(tree.children) = 3

\* The example has been parsed and counted.
HelloCountedWitness ==
  /\ text = Str(ExHello)
  /\ pc = "counted"
  /\ Len(tree.children) = 3

\* Root[Choice[Option("a ", [Choice[Option "x", Option "y"]]), Option "b"]]
NestedTree ==
  RootNode(<<ChoiceNode(<<
    OptionNode(<<"a", " ">>,
               <<ChoiceNode(<<OptionNode(<<"x">>, <<>>),
                              OptionNode(<<"y">>, <<>>)>>)>>),
    OptionNode(<<"b">>, <<>>)>>)>>)

(***************************************************************************)
(* C23  parseSpintax("{a {x|y}|b}") is Root[Choice[Option(content "a ",    *)
(* children [Choice[Option "x", Option "y"]]), Option "b"]]: the text      *)
(* before the nested brace is the Option's own content, with its trailing  *)
(* space, the nested Choice is the Option's child, and the '|' of depth 2  *)
(* does not split the outer Option.                                        *)
(***************************************************************************)
NestedExample ==
  text = Str(ExNested) /\ Parsed => tree = NestedTree

(***************************************************************************)
(* C24  An empty choice block "{}" is skipped by the parser, which emits   *)
(* no node for it: parseSpintax("{}") is the empty Root, and               *)
(* parseSpintax("a{}b") has exactly the two Text children "a" and "b".     *)
(***************************************************************************)
EmptyChoiceSkipped ==
  /\ text = Str(<<"{", "}">>) /\ Parsed => tree = RootNode(<<>>)
  /\ text = Str(ExEmptyChoice) /\ Parsed =>
       tree = RootNode(<<TextNode(<<"a">>), TextNode(<<"b">>)>>)

\* The Option is in canonical form.
CanonicalOption(option) ==
  /\ option.content # <<>> =>
       /\ ~IsSpace(option.content[1])
       /\ ~IsSpace(option.content[Len(option.content)])
  /\ \A k \in 1..Len(option.children) :
       ~(option.children[k].type = "text"
         /\ option.children[k].content = <<>>)
  /\ ~(/\ option.content = <<>>
       /\ Len(option.children) = 1
       /\ option.children[1].type = "text")

\* Every Option of the tree under node is in canonical form.
RECURSIVE AllOptionsCanonical(_)
AllOptionsCanonical(node) ==
  /\ node.type = "option" => CanonicalOption(node)
  /\ \A k \in 1..Len(ChildrenOf(node)) :
       AllOptionsCanonical(ChildrenOf(node)[k])

(***************************************************************************)
(* C25  In every tree returned by parseSpintax each Option's content has   *)
(* no leading or trailing whitespace, no Option has a Text child with      *)
(* empty content, and no Option has empty content together with exactly    *)
(* one child that is a Text node.                                          *)
(***************************************************************************)
OptionsCanonical == Parsed => AllOptionsCanonical(tree)

\* "{ a{x} b {y}|{z} }" has been parsed: its first Option has the content
\* "a" and the Text child "b", both scanned with spaces around them.
OptionsCanonicalWitness ==
  /\ text = Str(ExSpaces)
  /\ pc = "ready"
  /\ tree.children[1].children[1].content = <<"a">>
  /\ tree.children[1].children[1].children[2] = TextNode(<<"b">>)

\* Every Choice of the tree under node has an Option child.
RECURSIVE AllChoicesHaveOptions(_)
AllChoicesHaveOptions(node) ==
  /\ node.type = "choice" =>
       /\ Len(node.children) > 0
       /\ \A k \in 1..Len(node.children) : node.children[k].type = "option"
  /\ \A k \in 1..Len(ChildrenOf(node)) :
       AllChoicesHaveOptions(ChildrenOf(node)[k])

(***************************************************************************)
(* C30  Every Choice node of a tree returned by parseSpintax, at any       *)
(* depth, has at least one Option child: the parser produces no Choice     *)
(* with zero options, whatever the input.                                  *)
(***************************************************************************)
ChoicesHaveOptions == Parsed => AllChoicesHaveOptions(tree)

\* "{a{}}" has been parsed: the empty block nested in the Option is a
\* Choice of one Option.
ChoicesHaveOptionsWitness ==
  /\ text = Str(<<"{", "a", "{", "}", "}">>)
  /\ pc = "ready"
  /\ tree.children[1].children[1].children[1].type = "choice"
  /\ Len(tree.children[1].children[1].children[1].children) = 1

(***************************************************************************)
(* C29  In every state reached by mutations, undo, redo and clearAll, each *)
(* run to completion, the undo stack and the redo stack hold at most       *)
(* MAX_HISTORY_SIZE snapshots together; so neither the redo stack nor the  *)
(* push that redo makes onto the undo stack without a cut exceeds the      *)
(* capacity.                                                               *)
(***************************************************************************)
StacksBounded ==
  /\ Len(history) + Len(redoStack) <= MAX_HISTORY_SIZE
  /\ Len(history) <= MAX_HISTORY_SIZE
  /\ Len(redoStack) <= MAX_HISTORY_SIZE

\* redo has pushed onto the undo stack and filled it.
StacksBoundedWitness ==
  /\ call.op = "redo"
  /\ Len(call.before.history) = MAX_HISTORY_SIZE - 1
  /\ Len(history) = MAX_HISTORY_SIZE
  /\ redoStack = <<>>

\* Every snapshot is on the redo stack.
RedoStackFullWitness ==
  /\ Len(redoStack) = MAX_HISTORY_SIZE
  /\ history = <<>>

\* The list with the elements at the positions a and b exchanged.
Swapped(children, a, b) ==
  [k \in 1..Len(children) |->
     IF k = a THEN children[b] ELSE IF k = b THEN children[a]
     ELSE children[k]]

\* The index a reorder moves the child at index i to.
ReorderTarget(op, i) == IF op = "handleMoveUp" THEN i - 1 ELSE i + 1

\* The reorder of the child at p to the index target is to be applied to
\* the tree: the parent has the child, the target is an index of its
\* children, and a Choice has Options only.
ReorderApplies(prevTree, p, target) ==
  /\ getNodeByPathInDraft(prevTree, ParentPath(p)) # Null
  /\ "children" \in DOMAIN getNodeByPathInDraft(prevTree, ParentPath(p))
  /\ LastIndex(p).n \in
       0..(Len(getNodeByPathInDraft(prevTree, ParentPath(p)).children) - 1)
  /\ target \in
       0..(Len(getNodeByPathInDraft(prevTree, ParentPath(p)).children) - 1)
  /\ getNodeByPathInDraft(prevTree, ParentPath(p)).type = "choice" =>
       \A k \in 1..Len(getNodeByPathInDraft(prevTree,
                                            ParentPath(p)).children) :
         getNodeByPathInDraft(prevTree, ParentPath(p)).children[k].type
           = "option"

\* The tree after the child at p is deleted and inserted again at the
\* index target of its parent.
DeletedAndInserted(prevTree, p, target) ==
  AddRecipe(DeleteRecipe(prevTree, p).tree, ParentPath(p) \o Hop(target),
            getNodeByPathInDraft(prevTree, p)).tree

(***************************************************************************)
(* C26  Moving the child at index i of a parent up (i > 0) or down         *)
(* (i < length - 1) gives the children list that deleting the child and    *)
(* inserting it again at index i - 1 or i + 1 gives: the same elements,    *)
(* with the two adjacent siblings exchanged.  Moving the first child up or *)
(* the last child down leaves the tree unchanged, and so does a reorder in *)
(* a Choice whose children are not all Options.                            *)
(***************************************************************************)
ReorderIsDeleteInsert ==
  call.op \in ReorderOps /\ Len(call.path) >= 2 =>
    IF ReorderApplies(call.before.tree, call.path,
                      ReorderTarget(call.op, LastIndex(call.path).n))
    THEN /\ tree = DeletedAndInserted(call.before.tree, call.path,
                     ReorderTarget(call.op, LastIndex(call.path).n))
         /\ getNodeByPathInDraft(tree, ParentPath(call.path)).children
              = Swapped(getNodeByPathInDraft(call.before.tree,
                                             ParentPath(call.path)).children,
                        LastIndex(call.path).n + 1,
                        ReorderTarget(call.op, LastIndex(call.path).n) + 1)
    ELSE tree = call.before.tree

\* A child has been moved up among its siblings.
ReorderIsDeleteInsertWitness ==
  /\ call.op = "handleMoveUp"
  /\ ReorderApplies(call.before.tree, call.path, LastIndex(call.path).n - 1)
  /\ tree # call.before.tree

\* A child has been moved down among its siblings.
ReorderDownWitness ==
  /\ call.op = "handleMoveDown"
  /\ ReorderApplies(call.before.tree, call.path, LastIndex(call.path).n + 1)
  /\ tree # call.before.tree

\* A reorder in a Choice with a child that is no Option has been refused.
ReorderInChoiceWitness ==
  /\ call.op \in ReorderOps
  /\ Len(call.path) = 4
  /\ getNodeByPathInDraft(call.before.tree, ParentPath(call.path)) # Null
  /\ getNodeByPathInDraft(call.before.tree, ParentPath(call.path)).type
       = "choice"
  /\ Len(getNodeByPathInDraft(call.before.tree,
                              ParentPath(call.path)).children) > 2
  /\ ~ReorderApplies(call.before.tree, call.path,
                     ReorderTarget(call.op, LastIndex(call.path).n))
  /\ LastIndex(call.path).n = 1

\* The first of several children has been asked to move up.
ReorderAtBoundaryWitness ==
  /\ call.op = "handleMoveUp"
  /\ LastIndex(call.path).n = 0
  /\ Len(call.before.tree.children) > 1

\* The children list new is the list old with one element replaced or
\* removed at index, or with one element inserted.
ChildrenEdited(op, old, new, index) ==
  IF op = "updateNode"
  THEN /\ Len(new) = Len(old)
       /\ \A k \in 1..Len(old) : k # index.n + 1 => new[k] = old[k]
  ELSE IF op = "deleteNode"
  THEN new = SubSeq(old, 1, index.n) \o SubSeq(old, index.n + 2, Len(old))
  ELSE \E v \in 0..Len(old) :
         /\ Len(new) = Len(old) + 1
         /\ SubSeq(new, 1, v) = SubSeq(old, 1, v)
         /\ SubSeq(new, v + 2, Len(new)) = SubSeq(old, v + 1, Len(old))

\* The tree new differs from the tree old in the children list of the node
\* at parentPath only, and there as ChildrenEdited says.
RECURSIVE FrameKept(_, _, _, _, _)
FrameKept(op, old, new, parentPath, index) ==
  /\ DOMAIN new = DOMAIN old
  /\ new.type = old.type
  /\ ContentOf(new) = ContentOf(old)
  /\ IF parentPath = <<>>
     THEN ChildrenEdited(op, old.children, new.children, index)
     ELSE /\ Len(new.children) = Len(old.children)
          /\ \A k \in 1..Len(old.children) :
               k # parentPath[2].n + 1 => new.children[k] = old.children[k]
          /\ FrameKept(op, old.children[parentPath[2].n + 1],
                       new.children[parentPath[2].n + 1],
                       Tail(Tail(parentPath)), index)

(***************************************************************************)
(* C28  A successful updateNode, deleteNode or addNode at a path changes   *)
(* only the children list of the node the path's parent segment addresses, *)
(* at the addressed position: one element is replaced, removed or          *)
(* inserted.  The kind and the content of every ancestor, the sibling      *)
(* subtrees and their order are as before.                                 *)
(***************************************************************************)
EditFrame ==
  call.op \in EditOps /\ call.changed /\ Len(call.path) >= 2 =>
    FrameKept(call.op, call.before.tree, tree, ParentPath(call.path),
              LastIndex(call.path))

\* An edit two hops below the root has changed a tree in which the parent
\* has a sibling.
EditFrameWitness ==
  /\ call.op \in EditOps
  /\ call.changed
  /\ Len(call.path) = 4
  /\ Len(call.before.tree.children) > 1
  /\ tree # call.before.tree

(***************************************************************************)
(* C27  In each useSpintaxTree, once updateNode, deleteNode, addNode,      *)
(* addTextToRoot or addChoiceToRoot (and undo, redo or clearAll where the  *)
(* hook has them) has been processed, spintaxString is                     *)
(* generateSpintax(tree) and variationCount is calculateVariations(tree):  *)
(* they describe the tree after the edit, not the tree before it.          *)
(***************************************************************************)
DerivedStateFollowsTree ==
  call.op \in {"updateNode", "deleteNode", "addNode", "addTextToRoot",
               "addChoiceToRoot", "undo", "redo", "clearAll",
               "handleMoveUp", "handleMoveDown"}
  => /\ spintaxString = generateSpintax(tree)
     /\ variationCount = calculateVariations(tree)

====
